---- MODULE Spec2Model ----
(***************************************************************************)
(* A model of the JSONPath library saltfishpr/jsonpath: the Result         *)
(* accessors (jsonpath.go), the tree-walking Evaluator (ast.go), the       *)
(* function-extension subsystem (functions.go), the lexer (lexer.go) and   *)
(* the recursive-descent parser (unnamed/part_006).                        *)
(*                                                                         *)
(* A Go slice is a sequence; Go index i is sequence index i + 1.  A Go     *)
(* pointer is a sequence of length at most one: <<>> is nil, <<x>> points  *)
(* to x.  A run-time panic (index out of range, nil dereference) is an     *)
(* outcome of its own, carried next to the value an operator returns.      *)
(***************************************************************************)
EXTENDS Integers, Sequences, FiniteSets, TLC

VARIABLES json, query, out, first, evals, mapSeed, customSignatures, customHandlers,
          registryMutex, pc, local, registryCalls, path, parsed, lexed

vars == <<json, query, out, first, evals, mapSeed, customSignatures, customHandlers,
          registryMutex, pc, local, registryCalls, path, parsed, lexed>>

(* The text handed to Parse and what Parse returned for it; a Lexer a      *)
(* caller made for itself and the tokens it has returned to the caller.    *)
parser == <<path, parsed, lexed>>

(* The goroutines that evaluate and that register, and what belongs to     *)
(* them: the lock, where each goroutine stands, and its local variables.   *)
goroutines == <<registryMutex, pc, local, registryCalls>>

(***************************************************************************)
(* Bounds of the model.                                                    *)
(***************************************************************************)
MaxLen == 3
MaxEvals == 2
MaxSeed == 1

(***************************************************************************)
(* Result (jsonpath.go) and the values parseValue / parseArrayElement      *)
(* build from well-formed JSON text.  Raw is the raw text, kept as the     *)
(* sequence of its lexical tokens; Elems and Keys are what Array() and     *)
(* MapKVList() parse out of Raw.                                           *)
(***************************************************************************)
Nothing == [Type |-> "Null", Raw |-> <<>>, Str |-> "", Num |-> 0, Elems |-> <<>>, Keys |-> <<>>]

JNull == [Type |-> "Null", Raw |-> <<"null">>, Str |-> "", Num |-> 0, Elems |-> <<>>, Keys |-> <<>>]

JTrue == [Type |-> "True", Raw |-> <<"true">>, Str |-> "", Num |-> 0, Elems |-> <<>>, Keys |-> <<>>]

JFalse == [Type |-> "False", Raw |-> <<"false">>, Str |-> "", Num |-> 0, Elems |-> <<>>, Keys |-> <<>>]

JNum(n) == [Type |-> "Number", Raw |-> <<ToString(n)>>, Str |-> "", Num |-> n, Elems |-> <<>>, Keys |-> <<>>]

JStr(s) == [Type |-> "String", Raw |-> <<"\"", s, "\"">>, Str |-> s, Num |-> 0, Elems |-> <<>>, Keys |-> <<>>]

RECURSIVE JoinRaw(_, _)
JoinRaw(raws, i) ==
    IF i > Len(raws) THEN <<>>
    ELSE (IF i > 1 THEN <<",">> ELSE <<>>) \o raws[i] \o JoinRaw(raws, i + 1)

JArr(elems) ==
    [Type |-> "JSON",
     Raw |-> <<"[">> \o JoinRaw([i \in 1..Len(elems) |-> elems[i].Raw], 1) \o <<"]">>,
     Str |-> "", Num |-> 0, Elems |-> elems, Keys |-> <<>>]

JObj(keys, vals) ==
    [Type |-> "JSON",
     Raw |-> <<"{">>
             \o JoinRaw([i \in 1..Len(vals) |-> <<"\"", keys[i], "\"", ":">> \o vals[i].Raw], 1)
             \o <<"}">>,
     Str |-> "", Num |-> 0, Elems |-> vals, Keys |-> keys]

Exists(r) == r.Type # "Null" \/ Len(r.Raw) # 0

IsObject(r) == r.Type = "JSON" /\ Len(r.Raw) > 0 /\ r.Raw[1] = "{"

IsArray(r) == r.Type = "JSON" /\ Len(r.Raw) > 0 /\ r.Raw[1] = "["

Array(r) ==
    IF r.Type = "Null" THEN <<>>
    ELSE IF ~IsArray(r) THEN <<r>>
    ELSE r.Elems

(* The members MapKVList returns: it reads member after member and stops   *)
(* at the first member whose key is the empty string.                      *)
RECURSIVE KVScan(_, _)
KVScan(r, i) ==
    IF i > Len(r.Keys) THEN <<>>
    ELSE IF r.Keys[i] = "" THEN <<>>
    ELSE <<[Key |-> r.Keys[i], Value |-> r.Elems[i]]>> \o KVScan(r, i + 1)

MapKVList(r) ==
    IF r.Type = "Null" THEN <<>>
    ELSE IF ~IsObject(r) THEN <<>>
    ELSE KVScan(r, 1)

(* Map(): a Go map filled in MapKVList order, so the last of several equal *)
(* keys wins.  A Go map has no order of its own.                           *)
Map(r) ==
    LET kvs == MapKVList(r)
        ks == {kvs[i].Key : i \in 1..Len(kvs)}
        last(k) == CHOOSE i \in 1..Len(kvs) :
                      /\ kvs[i].Key = k
                      /\ \A j \in 1..Len(kvs) : kvs[j].Key = k => j <= i
    IN [k \in ks |-> kvs[last(k)].Value]

(***************************************************************************)
(* Outcomes: a nodelist or a panic; a boolean or a panic.                  *)
(***************************************************************************)
Ok(nodes) == [panic |-> FALSE, nodes |-> nodes]

Panic == [panic |-> TRUE, nodes |-> <<>>]

Cat(a, b) == IF a.panic THEN Panic ELSE IF b.panic THEN Panic ELSE Ok(a.nodes \o b.nodes)

BOk(b) == [panic |-> FALSE, val |-> b]

BPanic == [panic |-> TRUE, val |-> FALSE]

(***************************************************************************)
(* Selectors (ast.go).                                                     *)
(***************************************************************************)
evalNameSelector(result, name) ==
    IF ~IsObject(result) THEN <<>>
    ELSE LET m == Map(result)
         IN IF name \in DOMAIN m THEN <<m[name]>> ELSE <<>>

evalWildcardSelector(result) ==
    IF IsArray(result) THEN Array(result)
    ELSE IF IsObject(result)
         THEN LET kvs == MapKVList(result) IN [i \in 1..Len(kvs) |-> kvs[i].Value]
         ELSE <<>>

(* evalIndexSelector without `index = length + index` for a negative index *)
evalIndexSelectorNoWrap(result, index) ==
    IF ~IsArray(result) THEN <<>>
    ELSE LET arr == Array(result)
         IN IF index < 0 \/ index >= Len(arr) THEN <<>> ELSE <<arr[index + 1]>>

evalIndexSelector(result, index) ==
    IF ~IsArray(result) THEN <<>>
    ELSE LET arr == Array(result)
             length == Len(arr)
             idx == IF index < 0 THEN length + index ELSE index
         IN IF idx < 0 \/ idx >= length THEN <<>> ELSE <<arr[idx + 1]>>

clamp(v, min, max) == IF v < min THEN min ELSE IF v > max THEN max ELSE v

(* Returns <<start, end, endIsDefault>>. *)
normalizeSliceBounds(start, end, step, arrLen) ==
    LET s0 == IF start # <<>>
              THEN (IF start[1] < 0 THEN arrLen + start[1] ELSE start[1])
              ELSE IF step < 0 THEN arrLen - 1 ELSE 0
        endIsDefault == end = <<>> /\ step < 0
        en0 == IF end # <<>>
               THEN (IF end[1] < 0 THEN arrLen + end[1] ELSE end[1])
               ELSE IF step < 0 THEN -1 ELSE arrLen
        s == clamp(s0, 0, arrLen - 1)
        en == IF ~endIsDefault THEN clamp(en0, 0, arrLen) ELSE en0
    IN <<s, en, endIsDefault>>

(* for i := start; i < end; i += step { if i >= 0 && i < arrLen { append arr[i] } } *)
RECURSIVE sliceUp(_, _, _, _)
sliceUp(arr, i, end, step) ==
    IF ~(i < end) THEN Ok(<<>>)
    ELSE Cat(IF i >= 0 /\ i < Len(arr) THEN Ok(<<arr[i + 1]>>) ELSE Ok(<<>>),
             sliceUp(arr, i + step, end, step))

(* for i := start; i >= 0; i += step { append arr[i] }: arr[i] is not guarded *)
RECURSIVE sliceDownDefault(_, _, _)
sliceDownDefault(arr, i, step) ==
    IF ~(i >= 0) THEN Ok(<<>>)
    ELSE IF i >= Len(arr) THEN Panic
    ELSE Cat(Ok(<<arr[i + 1]>>), sliceDownDefault(arr, i + step, step))

(* for i := start; i > end; i += step { if i >= 0 && i < arrLen { append arr[i] } } *)
RECURSIVE sliceDown(_, _, _, _)
sliceDown(arr, i, end, step) ==
    IF ~(i > end) THEN Ok(<<>>)
    ELSE Cat(IF i >= 0 /\ i < Len(arr) THEN Ok(<<arr[i + 1]>>) ELSE Ok(<<>>),
             sliceDown(arr, i + step, end, step))

evalSliceSelector(result, slice) ==
    IF ~IsArray(result) THEN Ok(<<>>)
    ELSE LET arr == Array(result)
             arrLen == Len(arr)
             step == IF slice.Step # <<>> THEN slice.Step[1] ELSE 1
         IN IF step = 0 THEN Ok(<<>>)
            ELSE LET b == normalizeSliceBounds(slice.Start, slice.End, step, arrLen)
                 IN IF step > 0 THEN sliceUp(arr, b[1], b[2], step)
                    ELSE IF b[3] THEN sliceDownDefault(arr, b[1], step)
                    ELSE sliceDown(arr, b[1], b[2], step)

(***************************************************************************)
(* Go strings are byte strings: Bytes gives the UTF-8 bytes of each string *)
(* the model uses, and the order of two strings is the order of their      *)
(* bytes.  ParseFloat gives the value of each number text the model uses.  *)
(***************************************************************************)
Bytes(s) ==
    CASE s = "" -> <<>>
      [] s = "a" -> <<97>>
      [] s = "b" -> <<98>>
      [] s = "ab" -> <<97, 98>>
      [] s = "1" -> <<49>>
      [] s = "é" -> <<195, 169>>
      [] s = "[" -> <<91>>
      [] s = "a|b" -> <<97, 124, 98>>
      [] s = ".*" -> <<46, 42>>
      [] OTHER -> <<0>>

RECURSIVE BytesLess(_, _, _)
BytesLess(a, b, i) ==
    IF i > Len(b) THEN FALSE
    ELSE IF i > Len(a) THEN TRUE
    ELSE IF a[i] # b[i] THEN a[i] < b[i]
    ELSE BytesLess(a, b, i + 1)

StrLess(a, b) == BytesLess(Bytes(a), Bytes(b), 1)

ParseFloat(text) ==
    CASE text = "0" -> 0
      [] text = "1" -> 1
      [] text = "1.0" -> 1
      [] text = "2" -> 2
      [] text = "3" -> 3
      [] text = "-1" -> -1
      [] OTHER -> 0

(***************************************************************************)
(* Comparison of two existing values (ast.go).                             *)
(***************************************************************************)
compareEqual(a, b) ==
    IF a.Type # b.Type THEN FALSE
    ELSE CASE a.Type = "Null" -> TRUE
           [] a.Type \in {"True", "False"} -> a.Type = b.Type
           [] a.Type = "Number" -> a.Num = b.Num
           [] a.Type = "String" -> a.Str = b.Str
           [] a.Type = "JSON" -> a.Raw = b.Raw
           [] OTHER -> FALSE

compareLess(a, b) ==
    IF a.Type # b.Type THEN FALSE
    ELSE CASE a.Type = "Number" -> a.Num < b.Num
           [] a.Type = "String" -> StrLess(a.Str, b.Str)
           [] OTHER -> FALSE

(* The decision evalComparison takes once both operands are evaluated. *)
compareOp(left, op, right) ==
    LET leftEmpty == ~Exists(left)
        rightEmpty == ~Exists(right)
    IN IF leftEmpty \/ rightEmpty
       THEN CASE op = "CompEq" -> leftEmpty /\ rightEmpty
              [] op = "CompNe" -> ~leftEmpty \/ ~rightEmpty
              [] OTHER -> FALSE
       ELSE CASE op = "CompEq" -> compareEqual(left, right)
              [] op = "CompNe" -> ~compareEqual(left, right)
              [] op = "CompLt" -> compareLess(left, right)
              [] op = "CompLe" -> compareLess(left, right) \/ compareEqual(left, right)
              [] op = "CompGt" -> ~compareLess(left, right) /\ ~compareEqual(left, right)
              [] op = "CompGe" -> ~compareLess(left, right)
              [] OTHER -> FALSE

evalLiteral(lit) ==
    CASE lit.Type = "LiteralString" ->
           [Type |-> "String", Raw |-> <<>>, Str |-> lit.Value, Num |-> 0, Elems |-> <<>>, Keys |-> <<>>]
      [] lit.Type = "LiteralNumber" ->
           [Type |-> "Number", Raw |-> <<lit.Value>>, Str |-> "", Num |-> ParseFloat(lit.Value),
            Elems |-> <<>>, Keys |-> <<>>]
      [] lit.Type = "LiteralTrue" ->
           [Type |-> "True", Raw |-> <<>>, Str |-> "", Num |-> 0, Elems |-> <<>>, Keys |-> <<>>]
      [] lit.Type = "LiteralFalse" ->
           [Type |-> "False", Raw |-> <<>>, Str |-> "", Num |-> 0, Elems |-> <<>>, Keys |-> <<>>]
      [] lit.Type = "LiteralNull" ->
           [Type |-> "Null", Raw |-> <<>>, Str |-> "", Num |-> 0, Elems |-> <<>>, Keys |-> <<>>]
      [] OTHER -> Nothing

(* Name and index steps applied one after the other to a nodelist. *)
RECURSIVE evalQuerySegments(_, _, _)
evalQuerySegments(results, segments, i) ==
    IF i > Len(segments) THEN results
    ELSE LET seg == segments[i]
             step(r) == IF seg.Type = "SingularNameSegment"
                        THEN evalNameSelector(r, seg.Name)
                        ELSE evalIndexSelector(r, seg.Index)
             acc[k \in 0..Len(results)] ==
                 IF k = 0 THEN <<>> ELSE acc[k - 1] \o step(results[k])
             newResults == acc[Len(results)]
         IN IF newResults = <<>> THEN <<>>
            ELSE evalQuerySegments(newResults, segments, i + 1)

evalSingularQuery(currentNode, sq) ==
    LET results == evalQuerySegments(IF sq.Relative THEN <<currentNode>> ELSE <<json>>,
                                     sq.Segments, 1)
    IN IF Len(results) = 0 THEN Nothing ELSE results[1]

(***************************************************************************)
(* The function registry (functions.go).                                   *)
(***************************************************************************)
builtinSignatures ==
    [n \in {"length", "count", "match", "search", "value"} |->
       CASE n = "length" -> [Name |-> n, ParamTypes |-> <<"ParamTypeValueType">>,
                             ReturnType |-> "ResultTypeValueType"]
         [] n = "count" -> [Name |-> n, ParamTypes |-> <<"ParamTypeNodesType">>,
                            ReturnType |-> "ResultTypeValueType"]
         [] n = "match" -> [Name |-> n, ParamTypes |-> <<"ParamTypeValueType", "ParamTypeValueType">>,
                            ReturnType |-> "ResultTypeLogicalType"]
         [] n = "search" -> [Name |-> n, ParamTypes |-> <<"ParamTypeValueType", "ParamTypeValueType">>,
                             ReturnType |-> "ResultTypeLogicalType"]
         [] n = "value" -> [Name |-> n, ParamTypes |-> <<"ParamTypeNodesType">>,
                            ReturnType |-> "ResultTypeValueType"]]

(* customSignatures and customHandlers are Go maps: functions on the names *)
(* a host may register, <<>> at a name that is not in the map.  The result *)
(* is a pointer to the signature, nil when the name is unknown.            *)
findFunctionSignature(name) ==
    IF name \in DOMAIN builtinSignatures THEN <<builtinSignatures[name]>>
    ELSE IF name \in DOMAIN customSignatures THEN customSignatures[name]
    ELSE <<>>

checkFunctionWellTyped(fn, sig, context) ==
    IF Len(fn.Args) # Len(sig.ParamTypes) THEN FALSE
    ELSE CASE context = "ContextTest" ->
                sig.ReturnType \in {"ResultTypeLogicalType", "ResultTypeNodesType"}
           [] context = "ContextComparable" -> sig.ReturnType = "ResultTypeValueType"
           [] OTHER -> TRUE

logicalResult(value) ==
    IF value
    THEN [Type |-> "True", Raw |-> <<"true">>, Str |-> "", Num |-> 0, Elems |-> <<>>, Keys |-> <<>>]
    ELSE [Type |-> "False", Raw |-> <<"false">>, Str |-> "", Num |-> 0, Elems |-> <<>>, Keys |-> <<>>]

(* evalFuncResult and its zero value. *)
ZeroArg ==
    [value |-> Nothing, logical |-> FALSE, nodes |-> <<>>,
     resultType |-> "ResultTypeValueType", isNothing |-> FALSE]

ValueArg(v, nothing) == [ZeroArg EXCEPT !.value = v, !.isNothing = nothing]

LogicalArg(b) == [ZeroArg EXCEPT !.logical = b, !.resultType = "ResultTypeLogicalType"]

NodesArg(ns) == [ZeroArg EXCEPT !.nodes = ns, !.resultType = "ResultTypeNodesType"]

(* What a call or an argument evaluation returns: (value, ok), or a panic. *)
Ret(res, ok) == [panic |-> FALSE, ok |-> ok, res |-> res]

RetPanic == [panic |-> TRUE, ok |-> FALSE, res |-> Nothing]

ARet(arg, ok) == [panic |-> FALSE, ok |-> ok, arg |-> arg]

ARetPanic == [panic |-> TRUE, ok |-> FALSE, arg |-> ZeroArg]

(***************************************************************************)
(* regexp.Compile and MatchString on the pattern texts the model uses:     *)
(* Compile fails on "[", and "^" and "$" bind tighter than "|".            *)
(***************************************************************************)
regexpCompiles(text) == text \notin {"[", "^[$"}

HasByte(bs, c) == \E i \in 1..Len(bs) : bs[i] = c

MatchString(text, str) ==
    LET bs == Bytes(str) IN
    CASE text = "a" -> HasByte(bs, 97)
      [] text = "^a$" -> bs = <<97>>
      [] text = "^$" -> bs = <<>>
      [] text = "^b$" -> bs = <<98>>
      [] text = "^ab$" -> bs = <<97, 98>>
      [] text = "a|b" -> HasByte(bs, 97) \/ HasByte(bs, 98)
      [] text = "^a|b$" -> (Len(bs) > 0 /\ bs[1] = 97) \/ (Len(bs) > 0 /\ bs[Len(bs)] = 98)
      [] text = ".*" -> TRUE
      [] text = "^.*$" -> TRUE
      [] OTHER -> FALSE

(***************************************************************************)
(* The built-in functions (functions.go).                                  *)
(***************************************************************************)
builtinLength(args) ==
    IF Len(args) # 1 THEN Ret(Nothing, FALSE)
    ELSE LET arg == args[1] v == arg.value IN
         IF arg.isNothing THEN Ret(Nothing, TRUE)
         ELSE IF arg.resultType # "ResultTypeValueType" THEN Ret(Nothing, FALSE)
         ELSE IF IsArray(v) THEN Ret(JNum(Len(Array(v))), TRUE)
         ELSE IF IsObject(v) THEN Ret(JNum(Cardinality(DOMAIN Map(v))), TRUE)
         ELSE IF v.Type = "String" THEN Ret(JNum(Len(Bytes(v.Str))), TRUE)
         ELSE Ret(Nothing, TRUE)

builtinCount(args) ==
    IF Len(args) # 1 THEN Ret(Nothing, FALSE)
    ELSE IF args[1].resultType # "ResultTypeNodesType" THEN Ret(Nothing, FALSE)
    ELSE Ret(JNum(Len(args[1].nodes)), TRUE)

IsStringArg(a) ==
    ~a.isNothing /\ a.resultType = "ResultTypeValueType" /\ a.value.Type = "String"

builtinMatch(args) ==
    IF Len(args) # 2 THEN Ret(Nothing, FALSE)
    ELSE IF ~IsStringArg(args[1]) THEN Ret(logicalResult(FALSE), TRUE)
    ELSE IF ~IsStringArg(args[2]) THEN Ret(logicalResult(FALSE), TRUE)
    ELSE LET text == "^" \o args[2].value.Str \o "$" IN
         IF ~regexpCompiles(text) THEN Ret(logicalResult(FALSE), TRUE)
         ELSE Ret(logicalResult(MatchString(text, args[1].value.Str)), TRUE)

builtinSearch(args) ==
    IF Len(args) # 2 THEN Ret(Nothing, FALSE)
    ELSE IF ~IsStringArg(args[1]) THEN Ret(logicalResult(FALSE), TRUE)
    ELSE IF ~IsStringArg(args[2]) THEN Ret(logicalResult(FALSE), TRUE)
    ELSE LET text == args[2].value.Str IN
         IF ~regexpCompiles(text) THEN Ret(logicalResult(FALSE), TRUE)
         ELSE Ret(logicalResult(MatchString(text, args[1].value.Str)), TRUE)

builtinValue(args) ==
    IF Len(args) # 1 THEN Ret(Nothing, FALSE)
    ELSE IF args[1].resultType # "ResultTypeNodesType" THEN Ret(Nothing, FALSE)
    ELSE IF Len(args[1].nodes) = 1 THEN Ret(args[1].nodes[1], TRUE)
    ELSE Ret(Nothing, TRUE)

(* A FunctionHandler is code of the host; the model knows four of them:    *)
(* "arg" returns the logical value of its first argument.                  *)
applyHandler(handler, args, sig) ==
    CASE handler = "one" -> Ret(JNum(1), TRUE)
      [] handler = "yes" -> Ret(logicalResult(TRUE), TRUE)
      [] handler = "arg" ->
           IF Len(args) = 0 THEN Ret(Nothing, FALSE) ELSE Ret(logicalResult(args[1].logical), TRUE)
      [] OTHER -> Ret(Nothing, FALSE)

callFunction(name, args, sig) ==
    IF name \in DOMAIN customHandlers /\ customHandlers[name] # <<>>
    THEN applyHandler(customHandlers[name][1], args, sig)
    ELSE CASE name = "length" -> builtinLength(args)
           [] name = "count" -> builtinCount(args)
           [] name = "match" -> builtinMatch(args)
           [] name = "search" -> builtinSearch(args)
           [] name = "value" -> builtinValue(args)
           [] OTHER -> Ret(Nothing, FALSE)

funcResultToLogical(result) ==
    IF ~Exists(result) THEN FALSE
    ELSE IF result.Type = "True" THEN TRUE
    ELSE IF result.Type = "False" THEN FALSE
    ELSE TRUE

(***************************************************************************)
(* The evaluator proper (ast.go, functions.go): selectors, filter          *)
(* expressions and function calls call one another.                        *)
(***************************************************************************)
RECURSIVE evaluateSelector(_, _)
RECURSIVE selectorsOn(_, _, _)
RECURSIVE selectAll(_, _, _)
RECURSIVE filterLoop(_, _, _)
RECURSIVE evalFilterExpr(_, _)
RECURSIVE evalComparable(_, _)
RECURSIVE evalTestExpr(_, _)
RECURSIVE filterQueryLoop(_, _, _)
RECURSIVE filterQueryArgLoop(_, _, _)
RECURSIVE evalFuncCall(_, _, _)
RECURSIVE evalFuncArgs(_, _, _, _)
RECURSIVE evalFuncArg(_, _, _)

(* for _, selector := range selectors { output = append(output, evaluateSelector(result, selector)...) } *)
selectorsOn(result, selectors, j) ==
    IF j > Len(selectors) THEN Ok(<<>>)
    ELSE Cat(evaluateSelector(result, selectors[j]), selectorsOn(result, selectors, j + 1))

(* for _, result := range input { for _, selector := range selectors { ... } } *)
selectAll(input, selectors, k) ==
    IF k > Len(input) THEN Ok(<<>>)
    ELSE Cat(selectorsOn(input[k], selectors, 1), selectAll(input, selectors, k + 1))

(* if e.evalFilterExpr(elem, filter) { results = append(results, elem) } *)
Keep(keep, item) ==
    IF keep.panic THEN Panic ELSE IF keep.val THEN Ok(<<item>>) ELSE Ok(<<>>)

(* The elements of items for which the filter is true. *)
filterLoop(items, k, filter) ==
    IF k > Len(items) THEN Ok(<<>>)
    ELSE Cat(Keep(evalFilterExpr(items[k], filter), items[k]), filterLoop(items, k + 1, filter))

(* What the loops over a node visit: the elements of result.Array() of an  *)
(* array, the values of result.MapKVList() of an object.                   *)
Members(result) ==
    IF IsArray(result) THEN Array(result)
    ELSE IF IsObject(result)
         THEN LET kvs == MapKVList(result) IN [i \in 1..Len(kvs) |-> kvs[i].Value]
         ELSE <<>>

evalFilterSelector(result, filter) == filterLoop(Members(result), 1, filter)

evaluateSelector(result, selector) ==
    CASE selector.Type = "NameSelector" -> Ok(evalNameSelector(result, selector.Name))
      [] selector.Type = "WildcardSelector" -> Ok(evalWildcardSelector(result))
      [] selector.Type = "IndexSelector" -> Ok(evalIndexSelector(result, selector.Index))
      [] selector.Type = "SliceSelector" ->
           IF selector.Slice = <<>> THEN Panic ELSE evalSliceSelector(result, selector.Slice[1])
      [] selector.Type = "FilterSelector" -> evalFilterSelector(result, selector.Filter)
      [] OTHER -> Ok(<<>>)

(* sides[1] and sides[2] are the operands, both evaluated before the       *)
(* operator is looked at.                                                  *)
compareSides(sides, op) ==
    IF sides[1].panic \/ sides[2].panic THEN BPanic
    ELSE BOk(compareOp(sides[1].res, op, sides[2].res))

evalComparison(currentNode, comp) ==
    compareSides([side \in 1..2 |->
                    evalComparable(currentNode, IF side = 1 THEN comp.Left ELSE comp.Right)],
                 comp.Op)

(* l || r, l && r and !o of Go: r is evaluated only when l does not decide. *)
OrElse(l, r) == IF l.panic THEN BPanic ELSE IF l.val THEN BOk(TRUE) ELSE r

AndAlso(l, r) == IF l.panic THEN BPanic ELSE IF ~l.val THEN BOk(FALSE) ELSE r

Negated(o) == IF o.panic THEN BPanic ELSE BOk(~o.val)

(* expr is a pointer: dereferencing nil panics. *)
evalFilterExpr(currentNode, expr) ==
    IF expr = <<>> THEN BPanic
    ELSE CASE expr[1].Type = "FilterLogicalOr" ->
                OrElse(evalFilterExpr(currentNode, expr[1].Left),
                       evalFilterExpr(currentNode, expr[1].Right))
           [] expr[1].Type = "FilterLogicalAnd" ->
                AndAlso(evalFilterExpr(currentNode, expr[1].Left),
                        evalFilterExpr(currentNode, expr[1].Right))
           [] expr[1].Type = "FilterLogicalNot" ->
                Negated(evalFilterExpr(currentNode, expr[1].Operand))
           [] expr[1].Type = "FilterParen" -> evalFilterExpr(currentNode, expr[1].Operand)
           [] expr[1].Type = "FilterComparison" ->
                IF expr[1].Comp = <<>> THEN BPanic
                ELSE evalComparison(currentNode, expr[1].Comp[1])
           [] expr[1].Type = "FilterTest" ->
                IF expr[1].Test = <<>> THEN BPanic
                ELSE evalTestExpr(currentNode, expr[1].Test[1])
           [] OTHER -> BOk(FALSE)

(* `result, _ := e.evalFuncCall(...); return result`: the ok flag of the   *)
(* call is dropped, a failed call is Result{}.                             *)
dropOk(r) == IF r.panic THEN RetPanic ELSE Ret(r.res, TRUE)

evalComparable(currentNode, c) ==
    CASE c.Type = "ComparableLiteral" ->
           IF c.Literal = <<>> THEN RetPanic ELSE Ret(evalLiteral(c.Literal[1]), TRUE)
      [] c.Type = "ComparableSingularQuery" ->
           IF c.SingularQuery = <<>> THEN RetPanic
           ELSE Ret(evalSingularQuery(currentNode, c.SingularQuery[1]), TRUE)
      [] c.Type = "ComparableFuncExpr" ->
           IF c.FuncExpr = <<>> THEN RetPanic
           ELSE dropOk(evalFuncCall(currentNode, c.FuncExpr[1], "ContextComparable"))
      [] OTHER -> Ret(Nothing, TRUE)

(* results = newResults; if len(results) == 0 { return nil } *)
filterQueryStep(newResults, segments, i) ==
    IF newResults.panic THEN Panic
    ELSE IF Len(newResults.nodes) = 0 THEN Ok(<<>>)
    ELSE filterQueryLoop(newResults.nodes, segments, i + 1)

(* Every segment of a filter query is applied as a child segment. *)
filterQueryLoop(results, segments, i) ==
    IF i > Len(segments) THEN Ok(results)
    ELSE filterQueryStep(selectAll(results, segments[i].Selectors, 1), segments, i)

evalFilterQuery(currentNode, fq) ==
    filterQueryLoop(IF fq.Relative THEN <<currentNode>> ELSE <<json>>, fq.Segments, 1)

nonEmpty(results) == IF results.panic THEN BPanic ELSE BOk(Len(results.nodes) > 0)

evalFilterQueryTest(currentNode, fq) == nonEmpty(evalFilterQuery(currentNode, fq))

(* if !ok { return false }; return e.funcResultToLogical(result) *)
testOf(r) ==
    IF r.panic THEN BPanic
    ELSE IF ~r.ok THEN BOk(FALSE)
    ELSE BOk(funcResultToLogical(r.res))

evalTestExpr(currentNode, test) ==
    IF test.FilterQuery # <<>> THEN evalFilterQueryTest(currentNode, test.FilterQuery[1])
    ELSE IF test.FuncExpr # <<>>
         THEN testOf(evalFuncCall(currentNode, test.FuncExpr[1], "ContextTest"))
         ELSE BOk(FALSE)

(* lit is the pointer FuncArg.Literal; evalLiteral dereferences it. *)
evalLiteralArg(lit, expectedType) ==
    CASE expectedType = "ParamTypeValueType" ->
           IF lit = <<>> THEN ARetPanic ELSE ARet(ValueArg(evalLiteral(lit[1]), FALSE), TRUE)
      [] OTHER -> ARet(ZeroArg, FALSE)

filterQueryArgStep(newResults, segments, i) ==
    IF newResults.panic THEN Panic
    ELSE IF Len(newResults.nodes) = 0 THEN Ok(<<>>)
    ELSE filterQueryArgLoop(newResults.nodes, segments, i + 1)

filterQueryArgLoop(results, segments, i) ==
    IF i > Len(segments) THEN Ok(results)
    ELSE filterQueryArgStep(selectAll(results, segments[i].Selectors, 1), segments, i)

(* The nodelist of the query as an argument of the expected type. *)
queryArgOf(rs, expectedType) ==
    IF rs.panic THEN ARetPanic
    ELSE CASE expectedType = "ParamTypeValueType" ->
                IF Len(rs.nodes) = 1 THEN ARet(ValueArg(rs.nodes[1], FALSE), TRUE)
                ELSE ARet(ValueArg(Nothing, TRUE), TRUE)
           [] expectedType = "ParamTypeNodesType" -> ARet(NodesArg(rs.nodes), TRUE)
           [] expectedType = "ParamTypeLogicalType" ->
                ARet(LogicalArg(Len(rs.nodes) > 0), TRUE)
           [] OTHER -> ARet(ZeroArg, FALSE)

(* evalFilterQueryArg with `results[0]` for a value whenever there is one.  *)
queryArgOfFirst(rs, expectedType) ==
    IF rs.panic THEN ARetPanic
    ELSE IF expectedType = "ParamTypeValueType" /\ Len(rs.nodes) >= 1
         THEN ARet(ValueArg(rs.nodes[1], FALSE), TRUE)
         ELSE queryArgOf(rs, expectedType)

evalFilterQueryArgFirst(currentNode, fq, expectedType) ==
    IF fq = <<>> THEN ARetPanic
    ELSE queryArgOfFirst(filterQueryArgLoop(IF fq[1].Relative THEN <<currentNode>> ELSE <<json>>,
                                            fq[1].Segments, 1),
                         expectedType)

evalFilterQueryArg(currentNode, fq, expectedType) ==
    IF fq = <<>> THEN ARetPanic
    ELSE queryArgOf(filterQueryArgLoop(IF fq[1].Relative THEN <<currentNode>> ELSE <<json>>,
                                       fq[1].Segments, 1),
                    expectedType)

logicalArgOf(logical) ==
    IF logical.panic THEN ARetPanic ELSE ARet(LogicalArg(logical.val), TRUE)

evalLogicalExprArg(currentNode, expr, expectedType) ==
    IF expectedType # "ParamTypeLogicalType" THEN ARet(ZeroArg, FALSE)
    ELSE logicalArgOf(evalFilterExpr(currentNode, expr))

(* The result of a nested call as an argument of the expected type. *)
callArgOf(r, sig, expectedType) ==
    IF r.panic THEN ARetPanic
    ELSE IF ~r.ok THEN ARet(ZeroArg, FALSE)
    ELSE IF sig = <<>> THEN ARet(ZeroArg, FALSE)
    ELSE CASE sig[1].ReturnType = "ResultTypeValueType"
                /\ expectedType = "ParamTypeValueType" ->
                ARet(ValueArg(r.res, ~Exists(r.res)), TRUE)
           [] sig[1].ReturnType = "ResultTypeLogicalType"
                /\ expectedType = "ParamTypeLogicalType" ->
                ARet(LogicalArg(Exists(r.res) /\ r.res.Type # "Null"
                                /\ r.res.Type # "False"), TRUE)
           [] sig[1].ReturnType = "ResultTypeNodesType"
                /\ expectedType = "ParamTypeLogicalType" ->
                ARet(LogicalArg(Exists(r.res)), TRUE)
           [] OTHER -> ARet(ZeroArg, FALSE)

evalFuncExprArg(currentNode, fn, expectedType) ==
    IF fn = <<>> THEN ARetPanic
    ELSE callArgOf(evalFuncCall(currentNode, fn[1], "ContextArgument"),
                   findFunctionSignature(fn[1].Name), expectedType)

evalFuncArg(currentNode, arg, expectedType) ==
    CASE arg.Type = "FuncArgLiteral" -> evalLiteralArg(arg.Literal, expectedType)
      [] arg.Type = "FuncArgFilterQuery" ->
           evalFilterQueryArg(currentNode, arg.FilterQuery, expectedType)
      [] arg.Type = "FuncArgLogicalExpr" ->
           evalLogicalExprArg(currentNode, arg.LogicalExpr, expectedType)
      [] arg.Type = "FuncArgFuncExpr" -> evalFuncExprArg(currentNode, arg.FuncExpr, expectedType)
      [] OTHER -> ARet(ZeroArg, FALSE)

(* args[i] = result, unless the argument failed: then no argument after it *)
(* is evaluated.                                                           *)
consArgs(a, rest) ==
    IF a.panic THEN [panic |-> TRUE, ok |-> FALSE, args |-> <<>>]
    ELSE IF ~a.ok THEN [panic |-> FALSE, ok |-> FALSE, args |-> <<>>]
    ELSE [rest EXCEPT !.args = <<a.arg>> \o rest.args]

(* The arguments from the i-th on, as [panic, ok, args]. *)
evalFuncArgs(currentNode, fn, sig, i) ==
    IF i > Len(fn.Args) THEN [panic |-> FALSE, ok |-> TRUE, args |-> <<>>]
    ELSE consArgs(evalFuncArg(currentNode, fn.Args[i], sig.ParamTypes[i]),
                  evalFuncArgs(currentNode, fn, sig, i + 1))

(* Steps 3 and 4 of evalFuncCall: the call of the implementation. *)
callWith(name, args, sig) ==
    IF args.panic THEN RetPanic
    ELSE IF ~args.ok THEN Ret(Nothing, FALSE)
    ELSE callFunction(name, args.args, sig)

evalFuncCall(currentNode, fn, context) ==
    LET sig == findFunctionSignature(fn.Name)
    IN IF sig = <<>> THEN Ret(Nothing, FALSE)
       ELSE IF ~checkFunctionWellTyped(fn, sig[1], context) THEN Ret(Nothing, FALSE)
       ELSE callWith(fn.Name, evalFuncArgs(currentNode, fn, sig[1], 1), sig[1])

(***************************************************************************)
(* Segments and the query (ast.go).                                        *)
(***************************************************************************)
RECURSIVE collectDescendants(_, _)
RECURSIVE collectChildren(_, _, _)
RECURSIVE segmentLoop(_, _, _)

(* for _, child := range children { collectDescendants(child, selectors, results) } *)
collectChildren(children, selectors, k) ==
    IF k > Len(children) THEN Ok(<<>>)
    ELSE Cat(collectDescendants(children[k], selectors),
             collectChildren(children, selectors, k + 1))

(* `for _, value := range result.Map()`: Go visits the keys of a map in an *)
(* order of its own choosing, here the order mapSeed stands for.           *)
RECURSIVE DistinctKeys(_, _)
DistinctKeys(kvs, i) ==
    IF i > Len(kvs) THEN <<>>
    ELSE LET rest == DistinctKeys(kvs, i + 1)
         IN IF \E j \in 1..Len(rest) : rest[j] = kvs[i].Key THEN rest
            ELSE <<kvs[i].Key>> \o rest

RangeMap(result) ==
    LET keys == DistinctKeys(MapKVList(result), 1)
        n == Len(keys)
    IN [i \in 1..n |-> Map(result)[keys[IF mapSeed % 2 = 0 THEN i ELSE n + 1 - i]]]

(* collectDescendants walking the members of an object in map order *)
collectDescendantsMapOrder(result, selectors) ==
    Cat(selectorsOn(result, selectors, 1),
        collectChildren(IF IsArray(result) THEN Array(result)
                        ELSE IF IsObject(result) THEN RangeMap(result)
                        ELSE <<>>,
                        selectors, 1))

collectDescendants(result, selectors) ==
    Cat(selectorsOn(result, selectors, 1), collectChildren(Members(result), selectors, 1))

evalDescendant(result, selectors) == collectDescendants(result, selectors)

(* for _, result := range input { output = append(output, evalDescendant(result, ...)...) } *)
RECURSIVE descendAll(_, _, _)
descendAll(input, selectors, k) ==
    IF k > Len(input) THEN Ok(<<>>)
    ELSE Cat(evalDescendant(input[k], selectors), descendAll(input, selectors, k + 1))

(* The child segment with the loop over the selectors outside the loop     *)
(* over the input nodes.                                                   *)
RECURSIVE eachSelector(_, _, _)
eachSelector(input, selectors, j) ==
    IF j > Len(selectors) THEN Ok(<<>>)
    ELSE Cat(selectAll(input, <<selectors[j]>>, 1), eachSelector(input, selectors, j + 1))

evaluateSegmentBySelector(input, segment) ==
    IF segment.Type = "DescendantSegment" THEN descendAll(input, segment.Selectors, 1)
    ELSE eachSelector(input, segment.Selectors, 1)

evaluateSegment(input, segment) ==
    IF segment.Type = "DescendantSegment" THEN descendAll(input, segment.Selectors, 1)
    ELSE selectAll(input, segment.Selectors, 1)

(* results = e.evaluateSegment(results, segment); if len(results) == 0 { return nil } *)
segmentStep(r, segments, i) ==
    IF r.panic THEN Panic
    ELSE IF Len(r.nodes) = 0 THEN Ok(<<>>)
    ELSE segmentLoop(r.nodes, segments, i + 1)

segmentLoop(results, segments, i) ==
    IF i > Len(segments) THEN Ok(results)
    ELSE segmentStep(evaluateSegment(results, segments[i]), segments, i)

(* Evaluate() of the Evaluator NewEvaluator(json, query) makes; root is the *)
(* value parseValue reads from the document text.                          *)
Evaluate(root, q) ==
    IF ~Exists(root) THEN Ok(<<>>)
    ELSE segmentLoop(<<root>>, q.Segments, 1)

(***************************************************************************)
(* The AST nodes the parser builds (ast.go types, filled in as the parser  *)
(* fills them in; a field the parser does not set keeps its zero value).   *)
(***************************************************************************)
ZeroSelector == [Type |-> "NameSelector", Name |-> "", Index |-> 0, Slice |-> <<>>, Filter |-> <<>>]

NameSel(name) == [ZeroSelector EXCEPT !.Name = name]

WildSel == [ZeroSelector EXCEPT !.Type = "WildcardSelector"]

IndexSel(i) == [ZeroSelector EXCEPT !.Type = "IndexSelector", !.Index = i]

SliceSel(start, end, step) ==
    [ZeroSelector EXCEPT !.Type = "SliceSelector",
                         !.Slice = <<[Start |-> start, End |-> end, Step |-> step]>>]

FilterSel(expr) == [ZeroSelector EXCEPT !.Type = "FilterSelector", !.Filter = <<expr>>]

ChildSeg(selectors) == [Type |-> "ChildSegment", Selectors |-> selectors]

DescSeg(selectors) == [Type |-> "DescendantSegment", Selectors |-> selectors]

Lit(type, value) == [Type |-> type, Value |-> value]

ZeroComparable ==
    [Type |-> "ComparableLiteral", Literal |-> <<>>, SingularQuery |-> <<>>, FuncExpr |-> <<>>]

LitCmp(lit) == [ZeroComparable EXCEPT !.Literal = <<lit>>]

QueryCmp(sq) == [ZeroComparable EXCEPT !.Type = "ComparableSingularQuery", !.SingularQuery = <<sq>>]

FuncCmp(fn) == [ZeroComparable EXCEPT !.Type = "ComparableFuncExpr", !.FuncExpr = <<fn>>]

NameStep(name) == [Type |-> "SingularNameSegment", Name |-> name, Index |-> 0]

IndexStep(i) == [Type |-> "SingularIndexSegment", Name |-> "", Index |-> i]

ZeroExpr ==
    [Type |-> "FilterLogicalOr", Left |-> <<>>, Right |-> <<>>, Operand |-> <<>>,
     Comp |-> <<>>, Test |-> <<>>]

CompExpr(l, op, r) ==
    [ZeroExpr EXCEPT !.Type = "FilterComparison", !.Comp = <<[Left |-> l, Op |-> op, Right |-> r]>>]

QueryTest(fq) ==
    [ZeroExpr EXCEPT !.Type = "FilterTest", !.Test = <<[FilterQuery |-> <<fq>>, FuncExpr |-> <<>>]>>]

FuncTest(fn) ==
    [ZeroExpr EXCEPT !.Type = "FilterTest", !.Test = <<[FilterQuery |-> <<>>, FuncExpr |-> <<fn>>]>>]

NotExpr(e) == [ZeroExpr EXCEPT !.Type = "FilterLogicalNot", !.Operand = <<e>>]

ZeroFuncArg ==
    [Type |-> "FuncArgLiteral", Literal |-> <<>>, FilterQuery |-> <<>>, LogicalExpr |-> <<>>,
     FuncExpr |-> <<>>]

LitArg(lit) == [ZeroFuncArg EXCEPT !.Literal = <<lit>>]

QueryArg(fq) == [ZeroFuncArg EXCEPT !.Type = "FuncArgFilterQuery", !.FilterQuery = <<fq>>]

CallArg(fn) == [ZeroFuncArg EXCEPT !.Type = "FuncArgFuncExpr", !.FuncExpr = <<fn>>]

(* parseFuncArgRootOrCurrent on `query op comparable`: it sets LogicalExpr *)
(* and leaves Type at its zero value.                                      *)
CompArg(l, op, r) == [ZeroFuncArg EXCEPT !.LogicalExpr = <<CompExpr(l, op, r)>>]

Call(name, args) == [Name |-> name, Args |-> args]

(***************************************************************************)
(* The state: the document and the parsed query of a GetMany call, the     *)
(* registry, and what the first and the latest call returned, each with    *)
(* the registry it ran under.  mapSeed is the order in which the Go        *)
(* runtime would range over a map during the next call.                    *)
(***************************************************************************)
RegNames == {"f"}

RegSignatures ==
    {[Name |-> "f", ParamTypes |-> <<"ParamTypeValueType">>, ReturnType |-> "ResultTypeValueType"],
     [Name |-> "f", ParamTypes |-> <<"ParamTypeValueType">>, ReturnType |-> "ResultTypeNodesType"]}

RegHandlers == {"one"}

EmptyRegistry == [n \in RegNames |-> <<>>]

NoRun == [ran |-> FALSE, panic |-> FALSE, nodes |-> <<>>, seed |-> 0,
          sigs |-> EmptyRegistry, handlers |-> EmptyRegistry]

(* The goroutines: one that evaluates and two that change the registry.    *)
(* registryMutex is a sync.RWMutex: the goroutines that hold it in read    *)
(* mode and the one that holds it in write mode.  registryCalls counts the *)
(* registry calls that have returned.                                      *)
Evaluators == {"e1"}

Writers == {"w1", "w2"}

Procs == Evaluators \cup Writers

NoOp == [kind |-> "none", sig |-> <<>>, handler |-> <<>>]

(* Before Parse has been called.                                           *)
NoParse == [done |-> FALSE, query |-> <<>>, err |-> FALSE, fallbacks |-> <<>>]

ZeroLocal == [k |-> 0, sig |-> <<>>, seen |-> <<>>, acc |-> <<>>, snap |-> EmptyRegistry, op |-> NoOp]

(* No caller has made a Lexer.                                             *)
NoLexer == [l |-> <<>>, toks |-> <<>>]

(* No call has been made and no goroutine is running.                      *)
InitCalls ==
    /\ out = NoRun
    /\ first = NoRun
    /\ evals = 0
    /\ mapSeed \in 0..MaxSeed
    /\ registryMutex = [readers |-> {}, writer |-> {}]
    /\ pc = [p \in Procs |-> "idle"]
    /\ local = [p \in Procs |-> ZeroLocal]
    /\ registryCalls = 0

InitIdle ==
    /\ InitCalls
    /\ lexed = NoLexer

InitRun ==
    /\ InitIdle
    /\ customSignatures = EmptyRegistry
    /\ customHandlers = EmptyRegistry

InitRest ==
    /\ InitRun
    /\ path = <<>>
    /\ parsed = NoParse

(* What a call returned, with the map order and the registry it ran under. *)
RunOf(r) ==
    [ran |-> TRUE, panic |-> r.panic, nodes |-> r.nodes, seed |-> mapSeed,
     sigs |-> customSignatures, handlers |-> customHandlers]

(* evalIndexSelector storing `length + index` in the selector it was given *)
(* instead of in its own copy of the index.                                *)
queryIndexStored(root, q) ==
    IF /\ Len(q.Segments) > 0
       /\ q.Segments[1].Selectors[1].Type = "IndexSelector"
       /\ q.Segments[1].Selectors[1].Index < 0
       /\ IsArray(root)
    THEN [q EXCEPT !.Segments[1].Selectors[1].Index = Len(Array(root)) + @]
    ELSE q

(* The AST an evaluation leaves behind.  Evaluate and all it calls reach   *)
(* the nodes of e.query through pointers and assign to none of them: an    *)
(* index, a slice bound or a step is copied into a local before it is      *)
(* normalized.                                                             *)
queryAfterEvaluate(root, q) == q

GetMany ==
    /\ evals < MaxEvals
    /\ out' = RunOf(Evaluate(json, query))
    /\ first' = IF evals = 0 THEN out' ELSE first
    /\ evals' = evals + 1
    /\ mapSeed' \in 0..MaxSeed
    /\ query' = queryAfterEvaluate(json, query)
    /\ UNCHANGED <<parser, json, customSignatures, customHandlers, goroutines>>

RegisterFunction(name, paramTypes, returnType) ==
    /\ customSignatures' =
         [customSignatures EXCEPT ![name] =
            <<[Name |-> name, ParamTypes |-> paramTypes, ReturnType |-> returnType]>>]
    /\ UNCHANGED <<parser, json, query, out, first, evals, mapSeed, customHandlers, goroutines>>

RegisterFunctionHandler(name, handler) ==
    /\ customHandlers' = [customHandlers EXCEPT ![name] = <<handler>>]
    /\ UNCHANGED <<parser, json, query, out, first, evals, mapSeed, customSignatures, goroutines>>

UnregisterFunction(name) ==
    /\ customSignatures' = [customSignatures EXCEPT ![name] = <<>>]
    /\ customHandlers' = [customHandlers EXCEPT ![name] = <<>>]
    /\ UNCHANGED <<parser, json, query, out, first, evals, mapSeed, goroutines>>

Register ==
    \E sig \in RegSignatures : RegisterFunction(sig.Name, sig.ParamTypes, sig.ReturnType)

RegisterHandler == \E name \in RegNames, h \in RegHandlers : RegisterFunctionHandler(name, h)

Unregister == \E name \in RegNames : UnregisterFunction(name)

Next == GetMany \/ Register \/ RegisterHandler \/ Unregister

(***************************************************************************)
(* Index and slice selectors: `$[i]` and `$[start:end:step]` on arrays of  *)
(* every length up to MaxLen and on documents that are not arrays.         *)
(***************************************************************************)
Query(segments) == [Segments |-> segments]

RECURSIVE NumsTo(_)
NumsTo(n) == IF n = 0 THEN <<>> ELSE Append(NumsTo(n - 1), JNum(n))

ArrayOfLen(n) == JArr(NumsTo(n))

SliceDocs ==
    {ArrayOfLen(n) : n \in 0..MaxLen}
        \cup {JNum(1), JStr("a"), JNull, JObj(<<"a">>, <<JNum(1)>>)}

OptInt(S) == {<<>>} \cup {<<i>> : i \in S}

SliceBounds == OptInt(-(MaxLen + 1)..(MaxLen + 1))

SliceSteps == OptInt(-2..2)

IndexQuery(i) == Query(<<ChildSeg(<<IndexSel(i)>>)>>)

SliceQuery(start, end, step) == Query(<<ChildSeg(<<SliceSel(start, end, step)>>)>>)

SliceQueries ==
    {IndexQuery(i) : i \in -(MaxLen + 2)..(MaxLen + 2)}
        \cup {SliceQuery(a, b, c) : a \in SliceBounds, b \in SliceBounds, c \in SliceSteps}

InitSlice ==
    /\ json \in SliceDocs
    /\ query \in SliceQueries
    /\ InitRest

SpecSlice == InitSlice /\ [][GetMany]_vars

TheSelector == query.Segments[1].Selectors[1]

IsIndexQuery == Len(query.Segments) = 1 /\ query \in {IndexQuery(i) : i \in -(MaxLen + 2)..(MaxLen + 2)}

IsSliceQuery == query \in {SliceQuery(a, b, c) : a \in SliceBounds, b \in SliceBounds, c \in SliceSteps}

RECURSIVE Reverse(_)
Reverse(seq) == IF seq = <<>> THEN <<>> ELSE Append(Reverse(Tail(seq)), Head(seq))

(* The elements at s, s+step, s+2*step, ... for every index >= 0 reached. *)
RECURSIVE DownFrom(_, _, _)
DownFrom(A, i, step) ==
    IF i < 0 THEN <<>>
    ELSE (IF i < Len(A) THEN <<A[i + 1]>> ELSE <<>>) \o DownFrom(A, i + step, step)

(* C1: once a query has parsed, an evaluation returns a nodelist and never *)
(* panics, whatever selectors and slices the query contains.               *)
C1_EvaluateNeverPanics == out.ran => ~out.panic

(* C1 fails on `$[::-1]` applied to the empty array: the evaluation panics. *)
C1_PanicOnEmptyReverse ==
    /\ out.ran
    /\ json = ArrayOfLen(0)
    /\ query = SliceQuery(<<>>, <<>>, <<-1>>)
    /\ out.panic

(* C5: on every array, the empty and the one-element array included, the   *)
(* slice `[::-1]` yields exactly the elements in reverse order.            *)
C5_ReverseSlice ==
    (out.ran /\ IsArray(json) /\ query = SliceQuery(<<>>, <<>>, <<-1>>))
        => (~out.panic /\ out.nodes = Reverse(Array(json)))

(* C5 holds on an array of two or more elements. *)
C5_ReversedLongArray ==
    /\ out.ran
    /\ json = ArrayOfLen(MaxLen)
    /\ query = SliceQuery(<<>>, <<>>, <<-1>>)
    /\ ~out.panic
    /\ out.nodes = Reverse(Array(json))

(* C6: a slice with a negative step and no end on an array selects the     *)
(* elements at s, s+step, s+2*step, ... for every index >= 0 reached, s    *)
(* being the normalized start (len-1 when the start is omitted); index 0   *)
(* is included whenever the stepping lands on it.                          *)
C6_NegativeStepDefaultEnd ==
    (/\ out.ran
     /\ IsArray(json)
     /\ IsSliceQuery
     /\ TheSelector.Slice[1].End = <<>>
     /\ TheSelector.Slice[1].Step # <<>>
     /\ TheSelector.Slice[1].Step[1] < 0)
        => LET A == Array(json)
               step == TheSelector.Slice[1].Step[1]
               start == TheSelector.Slice[1].Start
               s == IF start = <<>> THEN Len(A) - 1
                    ELSE normalizeSliceBounds(start, <<>>, step, Len(A))[1]
           IN ~out.panic /\ out.nodes = DownFrom(A, s, step)

(* C6 holds where the stepping lands on index 0 of a non-empty array. *)
C6_SteppedDownToZero ==
    /\ out.ran
    /\ json = ArrayOfLen(MaxLen)
    /\ query = SliceQuery(<<2>>, <<>>, <<-2>>)
    /\ ~out.panic
    /\ out.nodes = <<JNum(3), JNum(1)>>

(* C7: on an array A of length n, `[i]` yields [A[i]] when 0 <= i < n,     *)
(* [A[n+i]] when -n <= i < 0 and the empty nodelist otherwise (so for      *)
(* i = n and i = -n-1), never an error; on a non-array it yields the empty *)
(* nodelist.                                                               *)
C7_IndexSelector ==
    (out.ran /\ IsIndexQuery)
        => LET i == TheSelector.Index
               A == json.Elems
               n == Len(A)
           IN /\ ~out.panic
              /\ out.nodes =
                   IF ~IsArray(json) THEN <<>>
                   ELSE IF 0 <= i /\ i < n THEN <<A[i + 1]>>
                   ELSE IF -n <= i /\ i < 0 THEN <<A[n + i + 1]>>
                   ELSE <<>>

(* C7: `[-n]` on an array of n >= 2 elements has yielded its first element. *)
C7_NegativeIndexSelected ==
    /\ out.ran
    /\ IsIndexQuery
    /\ IsArray(json)
    /\ Len(json.Elems) >= 2
    /\ TheSelector.Index = -Len(json.Elems)
    /\ out.nodes = <<json.Elems[1]>>

(***************************************************************************)
(* Filter comparisons: `$[?L op R]` on a one-element array, L and R drawn  *)
(* from the current node, a member of it, and literals of every type.      *)
(***************************************************************************)
CmpValues ==
    {JNull, JTrue, JFalse, JNum(1), JNum(2), JStr("a"), JStr("b"), JArr(<<JNum(1)>>),
     JObj(<<"a">>, <<JNull>>), JObj(<<"a">>, <<JNum(1)>>), JObj(<<>>, <<>>)}

CmpDocs == {JArr(<<v>>) : v \in CmpValues}

Current == [Relative |-> TRUE, Segments |-> <<>>]

CurrentMember(name) == [Relative |-> TRUE, Segments |-> <<NameStep(name)>>]

NullLit == Lit("LiteralNull", "null")

CmpOperands ==
    {QueryCmp(Current), QueryCmp(CurrentMember("a")), LitCmp(NullLit),
     LitCmp(Lit("LiteralTrue", "true")), LitCmp(Lit("LiteralFalse", "false")),
     LitCmp(Lit("LiteralNumber", "1")), LitCmp(Lit("LiteralNumber", "2")),
     LitCmp(Lit("LiteralString", "a")), LitCmp(Lit("LiteralString", "b"))}

CmpOps == {"CompEq", "CompNe", "CompLt", "CompLe", "CompGt", "CompGe"}

FilterQueryOf(expr) == Query(<<ChildSeg(<<FilterSel(expr)>>)>>)

CmpQueries == {FilterQueryOf(CompExpr(l, op, r)) : l \in CmpOperands, op \in CmpOps, r \in CmpOperands}

InitCmp ==
    /\ json \in CmpDocs
    /\ query \in CmpQueries
    /\ InitRest

SpecCmp == InitCmp /\ [][GetMany]_vars

TheComp == query.Segments[1].Selectors[1].Filter[1].Comp[1]

TheNode == json.Elems[1]

Selected == ~out.panic /\ out.nodes = <<TheNode>>

NotSelected == ~out.panic /\ out.nodes = <<>>

(* What RFC 9535 has an operand stand for at a node: the JSON value of a   *)
(* literal, the node itself for `@`, the member for `@.name`, or Nothing.  *)
LitValue(lit) ==
    CASE lit.Type = "LiteralNull" -> JNull
      [] lit.Type = "LiteralTrue" -> JTrue
      [] lit.Type = "LiteralFalse" -> JFalse
      [] lit.Type = "LiteralNumber" -> JNum(ParseFloat(lit.Value))
      [] lit.Type = "LiteralString" -> JStr(lit.Value)

MemberOf(v, name) ==
    IF v.Type = "JSON" /\ \E i \in 1..Len(v.Keys) : v.Keys[i] = name
    THEN v.Elems[CHOOSE i \in 1..Len(v.Keys) : v.Keys[i] = name]
    ELSE Nothing

Meaning(c, node) ==
    IF c.Type = "ComparableLiteral" THEN LitValue(c.Literal[1])
    ELSE IF c.SingularQuery[1].Segments = <<>> THEN node
    ELSE MemberOf(node, c.SingularQuery[1].Segments[1].Name)

LeftMeaning == Meaning(TheComp.Left, TheNode)

RightMeaning == Meaning(TheComp.Right, TheNode)

(* C2: when both operands of a comparison exist and they are not both      *)
(* numbers and not both strings, each of <, <=, > and >= is false.         *)
C2_OrderingOfMismatchedTypes ==
    (/\ out.ran
     /\ TheComp.Op \in {"CompLt", "CompLe", "CompGt", "CompGe"}
     /\ LeftMeaning # Nothing
     /\ RightMeaning # Nothing
     /\ ~(LeftMeaning.Type = "Number" /\ RightMeaning.Type = "Number")
     /\ ~(LeftMeaning.Type = "String" /\ RightMeaning.Type = "String"))
        => NotSelected

(* C2 fails on `$[?@ > "a"]` applied to `[1]`: the number is selected. *)
C2_NumberGreaterThanString ==
    /\ out.ran
    /\ json = JArr(<<JNum(1)>>)
    /\ query = FilterQueryOf(CompExpr(QueryCmp(Current), "CompGt", LitCmp(Lit("LiteralString", "a"))))
    /\ out.nodes = <<JNum(1)>>

(* C3: JSON null exists and is not Nothing: with a `null` literal on one   *)
(* side, `==` is true exactly when the other side is JSON null too, so a   *)
(* null node equals the literal and a missing member does not.             *)
C3_NullIsNotNothing ==
    (/\ out.ran
     /\ TheComp.Op = "CompEq"
     /\ LitCmp(NullLit) \in {TheComp.Left, TheComp.Right})
        => IF LeftMeaning = JNull /\ RightMeaning = JNull THEN Selected ELSE NotSelected

(* C3 fails on `$[?@ == null]` applied to `[null]`: nothing is selected. *)
C3_NullNodeNotEqualNullLiteral ==
    /\ out.ran
    /\ json = JArr(<<JNull>>)
    /\ query = FilterQueryOf(CompExpr(QueryCmp(Current), "CompEq", LitCmp(NullLit)))
    /\ out.nodes = <<>>

(* C4: when at least one operand is Nothing, `==` is true iff both are     *)
(* Nothing, `!=` is true iff they are not both Nothing, and <, <=, > and   *)
(* >= are false.                                                           *)
C4_ComparisonWithNothing ==
    (out.ran /\ (LeftMeaning = Nothing \/ RightMeaning = Nothing))
        => LET both == LeftMeaning = Nothing /\ RightMeaning = Nothing
               expected == CASE TheComp.Op = "CompEq" -> both
                             [] TheComp.Op = "CompNe" -> ~both
                             [] OTHER -> FALSE
           IN IF expected THEN Selected ELSE NotSelected

(* C4 fails on `$[?@.a == null]` applied to `[1]`: the node is selected. *)
C4_MissingMemberEqualsNull ==
    /\ out.ran
    /\ json = JArr(<<JNum(1)>>)
    /\ query = FilterQueryOf(CompExpr(QueryCmp(CurrentMember("a")), "CompEq", LitCmp(NullLit)))
    /\ out.nodes = <<JNum(1)>>

(***************************************************************************)
(* Descendant, wildcard and name segments on document trees: arrays and    *)
(* objects nested in one another, an object with an empty member name, an  *)
(* object with a repeated member name.                                     *)
(***************************************************************************)
DescDocs ==
    {JObj(<<"a", "b">>, <<JArr(<<JNum(1)>>), JArr(<<JNum(2)>>)>>),
     JObj(<<"b", "a">>, <<JObj(<<"a">>, <<JNum(1)>>), JArr(<<JObj(<<"a">>, <<JNum(2)>>)>>)>>),
     JArr(<<ArrayOfLen(MaxLen), JObj(<<"a">>, <<JNum(1)>>)>>),
     JObj(<<"">>, <<JNum(1)>>),
     JObj(<<"a">>, <<JObj(<<"", "b">>, <<JNum(1), JNum(2)>>)>>),
     JObj(<<"a", "a">>, <<JNum(1), JArr(<<JNum(2)>>)>>),
     JObj(<<>>, <<>>), JNum(1), JStr("a"), JNull}
        \cup {ArrayOfLen(n) : n \in 0..MaxLen}

DescQueries ==
    {Query(<<DescSeg(<<WildSel>>)>>),
     Query(<<DescSeg(<<NameSel("a")>>)>>),
     Query(<<DescSeg(<<IndexSel(0)>>)>>),
     Query(<<DescSeg(<<NameSel("a"), WildSel>>)>>),
     Query(<<ChildSeg(<<WildSel>>)>>),
     Query(<<ChildSeg(<<NameSel("a")>>)>>),
     Query(<<ChildSeg(<<NameSel("a")>>), DescSeg(<<WildSel>>)>>),
     Query(<<DescSeg(<<WildSel>>), ChildSeg(<<IndexSel(0)>>)>>)}

InitDesc ==
    /\ json \in DescDocs
    /\ query \in DescQueries
    /\ InitRest

SpecDesc == InitDesc /\ [][GetMany]_vars

(* The object members plus the array elements of the whole tree under v. *)
RECURSIVE CountNodes(_)
RECURSIVE CountEach(_, _)
CountEach(vs, i) == IF i > Len(vs) THEN 0 ELSE CountNodes(vs[i]) + CountEach(vs, i + 1)

CountNodes(v) == IF v.Type = "JSON" THEN Len(v.Elems) + CountEach(v.Elems, 1) ELSE 0

(* C8: on every document, `$..*` returns as many nodes as the document     *)
(* tree has object members plus array elements.                            *)
C8_DescendantWildcardCount ==
    (out.ran /\ query = Query(<<DescSeg(<<WildSel>>)>>))
        => (~out.panic /\ Len(out.nodes) = CountNodes(json))

(* C8 fails on `$..*` applied to `{"":1}`: one member, no node returned. *)
C8_EmptyNameMemberDropped ==
    /\ out.ran
    /\ json = JObj(<<"">>, <<JNum(1)>>)
    /\ query = Query(<<DescSeg(<<WildSel>>)>>)
    /\ out.nodes = <<>>

(***************************************************************************)
(* Function calls in filters: `$[?call]` and `$[?call op R]`, the call     *)
(* being a built-in, the custom function f (registered or not, with a      *)
(* handler or not) or a name nobody registered.                            *)
(***************************************************************************)
FuncDocs ==
    {JArr(<<JNum(1)>>), JArr(<<JStr("a")>>), JArr(<<JObj(<<"a">>, <<JNum(1)>>)>>),
     JArr(<<JNum(1), JStr("a")>>)}

CurrentArg == QueryArg([Relative |-> TRUE, Segments |-> <<>>])

ChildrenArg == QueryArg([Relative |-> TRUE, Segments |-> <<ChildSeg(<<WildSel>>)>>])

FuncCalls ==
    {Call("unknown", <<CurrentArg>>),
     Call("f", <<CurrentArg>>),
     Call("length", <<CurrentArg>>),
     Call("length", <<CurrentArg, CurrentArg>>),
     Call("match", <<CurrentArg, LitArg(Lit("LiteralString", "a"))>>),
     Call("count", <<ChildrenArg>>),
     Call("value", <<ChildrenArg>>),
     Call("length", <<CallArg(Call("value", <<ChildrenArg>>))>>),
     Call("length", <<CompArg(QueryCmp(CurrentMember("a")), "CompEq",
                              LitCmp(Lit("LiteralNumber", "1")))>>)}

FuncOps == {"CompEq", "CompNe", "CompLt", "CompGe"}

FuncRights == {LitCmp(Lit("LiteralNumber", "1")), QueryCmp(CurrentMember("b"))}

FuncQueries ==
    {FilterQueryOf(FuncTest(c)) : c \in FuncCalls}
        \cup {FilterQueryOf(CompExpr(FuncCmp(c), op, r)) : c \in FuncCalls, op \in FuncOps, r \in FuncRights}

InitFunc ==
    /\ json \in FuncDocs
    /\ query \in FuncQueries
    /\ InitRest

SpecFunc == InitFunc /\ [][Next]_vars

EvalCalls == {Call("f", <<CurrentArg>>), Call("unknown", <<CurrentArg>>), Call("count", <<ChildrenArg>>)}

EvalQueries ==
    {FilterQueryOf(FuncTest(Call("f", <<CurrentArg>>)))}
        \cup {FilterQueryOf(CompExpr(FuncCmp(c), op, LitCmp(Lit("LiteralNumber", "1")))) :
                 c \in EvalCalls, op \in {"CompEq", "CompNe"}}

EvalDescQueries ==
    {Query(<<DescSeg(<<WildSel>>)>>),
     Query(<<DescSeg(<<NameSel("a")>>)>>),
     Query(<<DescSeg(<<NameSel("a"), WildSel>>)>>),
     Query(<<ChildSeg(<<NameSel("a")>>)>>)}

InitEval ==
    \/ /\ json \in DescDocs
       /\ query \in EvalDescQueries
       /\ InitRest
    \/ /\ json \in FuncDocs
       /\ query \in EvalQueries
       /\ InitRest

SpecEval == InitEval /\ [][Next]_vars

TheFilter == query.Segments[1].Selectors[1].Filter[1]

(* The signature a call finds when the evaluation runs. *)
SigAtRun(name) ==
    IF name \in DOMAIN builtinSignatures THEN <<builtinSignatures[name]>>
    ELSE IF name \in RegNames THEN out.sigs[name]
    ELSE <<>>

(* Unregistered, wrong number of arguments, or a return type its position  *)
(* does not allow: a value in a test, anything but a value in a comparison.*)
IllTyped(fn, inTest) ==
    LET sig == SigAtRun(fn.Name)
    IN \/ sig = <<>>
       \/ Len(fn.Args) # Len(sig[1].ParamTypes)
       \/ inTest /\ sig[1].ReturnType = "ResultTypeValueType"
       \/ ~inTest /\ sig[1].ReturnType # "ResultTypeValueType"

(* C10: a test or comparison that directly contains a call to an           *)
(* unregistered function, a call with the wrong number of arguments or a   *)
(* call whose return type its position does not allow is false for every   *)
(* node, and no error is raised.                                           *)
C10_IllTypedCallIsFalse ==
    (/\ out.ran
     /\ \/ TheFilter.Type = "FilterTest" /\ IllTyped(TheFilter.Test[1].FuncExpr[1], TRUE)
        \/ TheFilter.Type = "FilterComparison"
             /\ IllTyped(TheFilter.Comp[1].Left.FuncExpr[1], FALSE))
        => (~out.panic /\ out.nodes = <<>>)

(* C10 fails on `$[?unknown(@) != 1]` applied to `[1]`: the node is        *)
(* selected.                                                               *)
C10_UnknownFunctionSelects ==
    /\ out.ran
    /\ json = JArr(<<JNum(1)>>)
    /\ query = FilterQueryOf(CompExpr(FuncCmp(Call("unknown", <<CurrentArg>>)), "CompNe",
                                      LitCmp(Lit("LiteralNumber", "1"))))
    /\ out.nodes = <<JNum(1)>>

(***************************************************************************)
(* Equality of two members: `$[?@.a op @.b]` and `$[?@.a op literal]` on   *)
(* a one-element array whose element is an object {"a": x, "b": y}, x and  *)
(* y primitives, arrays and objects, two of the objects with the same      *)
(* members in a different order.                                           *)
(***************************************************************************)
EqValues ==
    {JNull, JTrue, JFalse, JNum(1), JNum(2), JStr("a"), JStr("1"),
     JArr(<<>>), JArr(<<JNum(1)>>), JArr(<<JNum(1), JNum(2)>>), JArr(<<JNum(2), JNum(1)>>),
     JObj(<<>>, <<>>),
     JObj(<<"x", "y">>, <<JNum(1), JNum(2)>>),
     JObj(<<"y", "x">>, <<JNum(2), JNum(1)>>),
     JObj(<<"x", "y">>, <<JNum(2), JNum(1)>>),
     JArr(<<JObj(<<"x", "y">>, <<JNum(1), JNum(2)>>)>>),
     JArr(<<JObj(<<"y", "x">>, <<JNum(2), JNum(1)>>)>>)}

EqDocs == {JArr(<<JObj(<<"a", "b">>, <<x, y>>)>>) : x \in EqValues, y \in EqValues}

EqOperands ==
    {QueryCmp(CurrentMember("b")), QueryCmp(CurrentMember("a")),
     LitCmp(Lit("LiteralNumber", "1")), LitCmp(Lit("LiteralNumber", "1.0")),
     LitCmp(Lit("LiteralString", "1")), LitCmp(Lit("LiteralTrue", "true"))}

EqQueries ==
    {FilterQueryOf(CompExpr(QueryCmp(CurrentMember("a")), op, r)) :
        op \in {"CompEq", "CompNe"}, r \in EqOperands}

InitEq ==
    /\ json \in EqDocs
    /\ query \in EqQueries
    /\ InitRest

SpecEq == InitEq /\ [][GetMany]_vars

(* Equality of two JSON values: the same type, and then the same number,   *)
(* the same string, arrays of the same length with equal elements at each  *)
(* index, objects with the same member names and an equal value at each.   *)
RECURSIVE DeepEqual(_, _)
DeepEqual(a, b) ==
    IF a.Type # b.Type THEN FALSE
    ELSE CASE a.Type = "Number" -> a.Num = b.Num
           [] a.Type = "String" -> a.Str = b.Str
           [] a.Type = "JSON" ->
                IF IsArray(a) /\ IsArray(b)
                THEN /\ Len(a.Elems) = Len(b.Elems)
                     /\ \A i \in 1..Len(a.Elems) : DeepEqual(a.Elems[i], b.Elems[i])
                ELSE IF IsObject(a) /\ IsObject(b)
                THEN /\ {a.Keys[i] : i \in 1..Len(a.Keys)} = {b.Keys[i] : i \in 1..Len(b.Keys)}
                     /\ \A i \in 1..Len(a.Keys) : DeepEqual(a.Elems[i], MemberOf(b, a.Keys[i]))
                ELSE FALSE
           [] OTHER -> TRUE

(* C11: for two existing operands, `==` is true iff they have the same     *)
(* JSON type and are equal per type: numbers numerically, strings          *)
(* codepoint by codepoint, arrays and objects structurally.                *)
C11_EqualityIsStructural ==
    (/\ out.ran
     /\ TheComp.Op = "CompEq"
     /\ LeftMeaning # Nothing
     /\ RightMeaning # Nothing)
        => IF DeepEqual(LeftMeaning, RightMeaning) THEN Selected ELSE NotSelected

(* C11 fails on `$[?@.a == @.b]` applied to                                *)
(* `[{"a":{"x":1,"y":2},"b":{"y":2,"x":1}}]`: the two objects have the     *)
(* same members and the element is not selected.                           *)
C11_ReorderedMembersUnequal ==
    /\ out.ran
    /\ json = JArr(<<JObj(<<"a", "b">>, <<JObj(<<"x", "y">>, <<JNum(1), JNum(2)>>),
                                          JObj(<<"y", "x">>, <<JNum(2), JNum(1)>>)>>)>>)
    /\ query = FilterQueryOf(CompExpr(QueryCmp(CurrentMember("a")), "CompEq",
                                      QueryCmp(CurrentMember("b"))))
    /\ out.nodes = <<>>

(***************************************************************************)
(* length(): `$[?length(A) op R]` on a one-element array, A the current    *)
(* node or its member a, R a number or a member nobody has (Nothing).  The *)
(* nodes are strings of one-byte and of two-byte characters, arrays,       *)
(* objects and values of the other types.                                  *)
(***************************************************************************)
LenValues ==
    {JStr(""), JStr("a"), JStr("ab"), JStr("é"),
     JArr(<<>>), JArr(<<JNum(1)>>), JArr(<<JStr("ab"), JNum(1)>>),
     JObj(<<>>, <<>>), JObj(<<"a">>, <<JStr("é")>>), JObj(<<"a", "b">>, <<JArr(<<JNum(1)>>), JNum(2)>>),
     JObj(<<"b", "a", "c">>, <<JNum(1), JObj(<<"b">>, <<JNum(1)>>), JNum(3)>>),
     JNum(1), JNum(2), JTrue, JFalse, JNull}

LenDocs == {JArr(<<v>>) : v \in LenValues}

MemberArg(name) == QueryArg([Relative |-> TRUE, Segments |-> <<ChildSeg(<<NameSel(name)>>)>>])

LenArgs == {CurrentArg, MemberArg("a")}

LenRights ==
    {LitCmp(Lit("LiteralNumber", n)) : n \in {"0", "1", "2", "3"}}
        \cup {QueryCmp(CurrentMember("zz"))}

LenQueries ==
    {FilterQueryOf(CompExpr(FuncCmp(Call("length", <<a>>)), op, r)) :
        a \in LenArgs, op \in {"CompEq", "CompNe"}, r \in LenRights}

InitLen ==
    /\ json \in LenDocs
    /\ query \in LenQueries
    /\ InitRest

SpecLen == InitLen /\ [][GetMany]_vars

(* The number of Unicode codepoints of a string: the bytes of its UTF-8    *)
(* form that are not continuation bytes (10xxxxxx).                        *)
RECURSIVE CountLeadBytes(_, _)
CountLeadBytes(bs, i) ==
    IF i > Len(bs) THEN 0
    ELSE (IF bs[i] \div 64 = 2 THEN 0 ELSE 1) + CountLeadBytes(bs, i + 1)

Codepoints(s) == CountLeadBytes(Bytes(s), 1)

(* What length() is to return for a value. *)
LengthOf(v) ==
    IF v.Type = "String" THEN JNum(Codepoints(v.Str))
    ELSE IF IsArray(v) THEN JNum(Len(v.Elems))
    ELSE IF IsObject(v) THEN JNum(Len(v.Keys))
    ELSE Nothing

(* What the argument of the call stands for at a node: `@` or `@.name`. *)
ArgMeaning(arg, node) ==
    IF arg.FilterQuery[1].Segments = <<>> THEN node
    ELSE MemberOf(node, arg.FilterQuery[1].Segments[1].Selectors[1].Name)

TheCallArg == TheComp.Left.FuncExpr[1].Args[1]

(* C12: length(v) is the number of Unicode codepoints of a string, the     *)
(* number of elements of an array, the number of members of an object, and *)
(* Nothing for every other type and for Nothing.                           *)
C12_LengthOfValue ==
    out.ran =>
        LET expected == LengthOf(ArgMeaning(TheCallArg, TheNode))
            equal == IF expected = Nothing THEN RightMeaning = Nothing
                     ELSE RightMeaning # Nothing /\ expected.Num = RightMeaning.Num
        IN IF (TheComp.Op = "CompEq") = equal THEN Selected ELSE NotSelected

(* C12 fails on `$[?length(@) == 2]` applied to `["é"]`: the string has    *)
(* one codepoint and two bytes, and it is selected.                        *)
C12_ByteLengthOfString ==
    /\ out.ran
    /\ json = JArr(<<JStr("é")>>)
    /\ query = FilterQueryOf(CompExpr(FuncCmp(Call("length", <<CurrentArg>>)), "CompEq",
                                      LitCmp(Lit("LiteralNumber", "2"))))
    /\ out.nodes = <<JStr("é")>>

(***************************************************************************)
(* match(): `$[?match(V, P)]` on a one-element array, V and P the current  *)
(* node, its member a, or a literal; the patterns are a single character,  *)
(* an alternation, `.*` and a text that is no pattern.                     *)
(***************************************************************************)
MatchValues ==
    {JStr(""), JStr("a"), JStr("b"), JStr("ab"), JStr("["), JStr("a|b"), JStr(".*"),
     JNum(1), JTrue, JNull, JArr(<<JStr("a")>>),
     JObj(<<"a">>, <<JStr("a")>>), JObj(<<"a">>, <<JStr("ab")>>), JObj(<<"a">>, <<JNum(1)>>)}

MatchDocs == {JArr(<<v>>) : v \in MatchValues}

MatchInputs == {CurrentArg, MemberArg("a"), LitArg(Lit("LiteralString", "ab")), LitArg(NullLit)}

MatchPatterns ==
    {LitArg(Lit("LiteralString", p)) : p \in {"a", "a|b", ".*", "["}}
        \cup {LitArg(Lit("LiteralNumber", "1")), CurrentArg, MemberArg("a")}

MatchQueries ==
    {FilterQueryOf(FuncTest(Call("match", <<v, p>>))) : v \in MatchInputs, p \in MatchPatterns}

InitMatch ==
    /\ json \in MatchDocs
    /\ query \in MatchQueries
    /\ InitRest

SpecMatch == InitMatch /\ [][GetMany]_vars

(* The texts that are patterns, and the strings each pattern matches as a  *)
(* whole.                                                                  *)
IsPattern(p) == p \in {"", "a", "b", "ab", "a|b", ".*"}

MatchesWhole(p, s) ==
    CASE p = "" -> s = ""
      [] p = "a" -> s = "a"
      [] p = "b" -> s = "b"
      [] p = "ab" -> s = "ab"
      [] p = "a|b" -> s \in {"a", "b"}
      [] p = ".*" -> TRUE
      [] OTHER -> FALSE

(* What an argument of the call stands for at a node. *)
CallArgMeaning(arg, node) ==
    IF arg.Type = "FuncArgLiteral" THEN LitValue(arg.Literal[1]) ELSE ArgMeaning(arg, node)

TheTestCall == TheFilter.Test[1].FuncExpr[1]

(* C13: match(v, p) is true iff v is a string, p is a string that compiles *)
(* as a pattern, and the pattern matches the whole of v; in every other    *)
(* case it is false.                                                       *)
C13_MatchWholeString ==
    out.ran =>
        LET v == CallArgMeaning(TheTestCall.Args[1], TheNode)
            p == CallArgMeaning(TheTestCall.Args[2], TheNode)
            expected == /\ v.Type = "String"
                        /\ p.Type = "String"
                        /\ IsPattern(p.Str)
                        /\ MatchesWhole(p.Str, v.Str)
        IN IF expected THEN Selected ELSE NotSelected

(* C13 fails on `$[?match(@, "a|b")]` applied to `["ab"]`: the pattern     *)
(* matches "a" and "b" only, and "ab" is selected.                         *)
C13_AlternationMatchesPart ==
    /\ out.ran
    /\ json = JArr(<<JStr("ab")>>)
    /\ query = FilterQueryOf(FuncTest(Call("match", <<CurrentArg, LitArg(Lit("LiteralString", "a|b"))>>)))
    /\ out.nodes = <<JStr("ab")>>

(***************************************************************************)
(* Evaluation and registration in different goroutines.  An evaluation of  *)
(* `$[?f(@)]` or `$[?f(@) op literal]` goes through the elements of the    *)
(* document one after the other; for each it looks the signature of f up   *)
(* (findFunctionSignature) and, when the call is well-typed, the handler   *)
(* (callFunction), each time under the read lock.  A registry call takes   *)
(* the write lock, writes and releases the lock.                           *)
(***************************************************************************)
MaxWrites == 3

ConcDocs == {JArr(<<JNum(1)>>), JArr(<<JNum(1), JNum(2)>>)}

ConcQueries ==
    {FilterQueryOf(FuncTest(Call("f", <<CurrentArg>>))),
     FilterQueryOf(CompExpr(FuncCmp(Call("f", <<CurrentArg>>)), "CompEq",
                            LitCmp(Lit("LiteralNumber", "1"))))}

InitConc ==
    /\ json \in ConcDocs
    /\ query \in ConcQueries
    /\ InitRest

(* RLock and Lock of sync.RWMutex return when the lock can be taken. *)
canRLockAlways(p) == TRUE

canRLock(p) == registryMutex.writer = {}

canLock(p) == registryMutex.writer = {} /\ registryMutex.readers = {}

RLocked(p) == [registryMutex EXCEPT !.readers = @ \cup {p}]

RUnlocked(p) == [registryMutex EXCEPT !.readers = @ \ {p}]

(* The call the filter of the query makes, and where it stands. *)
TheCall ==
    IF TheFilter.Type = "FilterTest" THEN TheFilter.Test[1].FuncExpr[1]
    ELSE TheFilter.Comp[1].Left.FuncExpr[1]

TheContext == IF TheFilter.Type = "FilterTest" THEN "ContextTest" ELSE "ContextComparable"

(* What the filter makes of the outcome r of the call: evalTestExpr, or    *)
(* evalComparison with the right operand.                                  *)
filterOf(currentNode, r) ==
    IF TheFilter.Type = "FilterTest" THEN testOf(r)
    ELSE compareSides(<<dropOk(r), evalComparable(currentNode, TheFilter.Comp[1].Right)>>,
                      TheFilter.Comp[1].Op)

(* The element the goroutine works on, and its locals once the filter has  *)
(* decided on that element.                                                *)
elementOf(p) == Members(json)[local[p].k]

afterElement(p, keep, obs) ==
    [local[p] EXCEPT !.k = @ + 1,
                     !.sig = <<>>,
                     !.seen = Append(@, obs),
                     !.acc = IF keep.val THEN Append(@, elementOf(p)) ELSE @]

nextPc(p) == IF local[p].k >= Len(Members(json)) THEN "finish" ELSE "findSig"

(* An observation: which map was read and whether the name was in it. *)
Seen(kind, found) == [kind |-> kind, found |-> found]

(* findFunctionSignature reading the maps as they were when the evaluation *)
(* started                                                                 *)
lookupSnapshot(p, name) ==
    IF name \in DOMAIN builtinSignatures THEN <<builtinSignatures[name]>>
    ELSE IF name \in DOMAIN local[p].snap THEN local[p].snap[name]
    ELSE <<>>

lookupSignature(p, name) == findFunctionSignature(name)

(* Evaluate up to the first call of the filter. *)
EvaluateStart(p) ==
    /\ pc[p] = "idle"
    /\ local' = [local EXCEPT ![p] = [ZeroLocal EXCEPT !.k = 1, !.snap = customSignatures]]
    /\ pc' = [pc EXCEPT ![p] = IF Len(Members(json)) = 0 THEN "finish" ELSE "findSig"]
    /\ UNCHANGED <<parser, json, query, out, first, evals, mapSeed, customSignatures, customHandlers,
                   registryMutex, registryCalls>>

(* findFunctionSignature: registryMutex.RLock() *)
FindSignatureRLock(p) ==
    /\ pc[p] = "findSig"
    /\ canRLock(p)
    /\ registryMutex' = RLocked(p)
    /\ pc' = [pc EXCEPT ![p] = "findSigLocked"]
    /\ UNCHANGED <<parser, json, query, out, first, evals, mapSeed, customSignatures, customHandlers,
                   local, registryCalls>>

(* findFunctionSignature: the lookups and the deferred RUnlock; then steps *)
(* 1 and 2 of evalFuncCall.                                                *)
FindSignatureRead(p) ==
    /\ pc[p] = "findSigLocked"
    /\ registryMutex' = RUnlocked(p)
    /\ LET sig == lookupSignature(p, TheCall.Name)
           obs == Seen("signature", sig # <<>>)
           failed == IF sig = <<>> THEN TRUE
                     ELSE ~checkFunctionWellTyped(TheCall, sig[1], TheContext)
       IN IF failed
          THEN /\ local' = [local EXCEPT ![p] =
                              afterElement(p, filterOf(elementOf(p), Ret(Nothing, FALSE)), obs)]
               /\ pc' = [pc EXCEPT ![p] = nextPc(p)]
          ELSE /\ local' = [local EXCEPT ![p].sig = sig, ![p].seen = Append(@, obs)]
               /\ pc' = [pc EXCEPT ![p] = "call"]
    /\ UNCHANGED <<parser, json, query, out, first, evals, mapSeed, customSignatures, customHandlers,
                   registryCalls>>

(* callFunction: registryMutex.RLock() *)
CallFunctionRLock(p) ==
    /\ pc[p] = "call"
    /\ canRLock(p)
    /\ registryMutex' = RLocked(p)
    /\ pc' = [pc EXCEPT ![p] = "callLocked"]
    /\ UNCHANGED <<parser, json, query, out, first, evals, mapSeed, customSignatures, customHandlers,
                   local, registryCalls>>

(* callFunction: the lookup of the handler, RUnlock, and the call; then    *)
(* the filter decides on the element.  The arguments (step 3 of            *)
(* evalFuncCall) are evaluated without the registry.                       *)
CallFunctionRead(p) ==
    /\ pc[p] = "callLocked"
    /\ registryMutex' = RUnlocked(p)
    /\ LET sig == local[p].sig[1]
           r == callWith(TheCall.Name, evalFuncArgs(elementOf(p), TheCall, sig, 1), sig)
           obs == Seen("handler", customHandlers[TheCall.Name] # <<>>)
       IN local' = [local EXCEPT ![p] = afterElement(p, filterOf(elementOf(p), r), obs)]
    /\ pc' = [pc EXCEPT ![p] = nextPc(p)]
    /\ UNCHANGED <<parser, json, query, out, first, evals, mapSeed, customSignatures, customHandlers,
                   registryCalls>>

(* Evaluate returns the elements the filter kept. *)
EvaluateReturn(p) ==
    /\ pc[p] = "finish"
    /\ pc' = [pc EXCEPT ![p] = "done"]
    /\ out' = RunOf(Ok(local[p].acc))
    /\ first' = IF evals = 0 THEN out' ELSE first
    /\ evals' = evals + 1
    /\ UNCHANGED <<parser, json, query, mapSeed, customSignatures, customHandlers, registryMutex,
                   local, registryCalls>>

RegistryOps ==
    {[kind |-> "register", sig |-> <<sig>>, handler |-> <<>>] : sig \in RegSignatures}
        \cup {[kind |-> "handler", sig |-> <<>>, handler |-> <<h>>] : h \in RegHandlers}
        \cup {[kind |-> "unregister", sig |-> <<>>, handler |-> <<>>]}

(* registryMutex.Lock() of RegisterFunction, RegisterFunctionHandler and   *)
(* UnregisterFunction.                                                     *)
RegistryLock(w, op) ==
    /\ pc[w] = "idle"
    /\ registryCalls < MaxWrites
    /\ canLock(w)
    /\ registryMutex' = [registryMutex EXCEPT !.writer = {w}]
    /\ pc' = [pc EXCEPT ![w] = "writing"]
    /\ local' = [local EXCEPT ![w].op = op]
    /\ UNCHANGED <<parser, json, query, out, first, evals, mapSeed, customSignatures, customHandlers,
                   registryCalls>>

(* customSignatures[name] = &FuncSignature{...} and the deferred Unlock *)
RegisterFunctionWrite(w) ==
    /\ pc[w] = "writing"
    /\ local[w].op.kind = "register"
    /\ customSignatures' = [customSignatures EXCEPT ![local[w].op.sig[1].Name] = local[w].op.sig]
    /\ registryCalls' = registryCalls + 1
    /\ registryMutex' = [registryMutex EXCEPT !.writer = {}]
    /\ pc' = [pc EXCEPT ![w] = "idle"]
    /\ UNCHANGED <<parser, json, query, out, first, evals, mapSeed, customHandlers, local>>

(* customHandlers[name] = handler and the deferred Unlock *)
RegisterFunctionHandlerWrite(w, name) ==
    /\ pc[w] = "writing"
    /\ local[w].op.kind = "handler"
    /\ customHandlers' = [customHandlers EXCEPT ![name] = local[w].op.handler]
    /\ registryCalls' = registryCalls + 1
    /\ registryMutex' = [registryMutex EXCEPT !.writer = {}]
    /\ pc' = [pc EXCEPT ![w] = "idle"]
    /\ UNCHANGED <<parser, json, query, out, first, evals, mapSeed, customSignatures, local>>

(* delete(customSignatures, name) *)
UnregisterFunctionSignature(w, name) ==
    /\ pc[w] = "writing"
    /\ local[w].op.kind = "unregister"
    /\ customSignatures' = [customSignatures EXCEPT ![name] = <<>>]
    /\ pc' = [pc EXCEPT ![w] = "deleting"]
    /\ UNCHANGED <<parser, json, query, out, first, evals, mapSeed, customHandlers, registryMutex,
                   local, registryCalls>>

(* delete(customHandlers, name) and the deferred Unlock *)
UnregisterFunctionHandler(w, name) ==
    /\ pc[w] = "deleting"
    /\ customHandlers' = [customHandlers EXCEPT ![name] = <<>>]
    /\ registryCalls' = registryCalls + 1
    /\ registryMutex' = [registryMutex EXCEPT !.writer = {}]
    /\ pc' = [pc EXCEPT ![w] = "idle"]
    /\ UNCHANGED <<parser, json, query, out, first, evals, mapSeed, customSignatures, local>>

EvaluatorStep ==
    \E p \in Evaluators :
        \/ EvaluateStart(p)
        \/ FindSignatureRLock(p)
        \/ FindSignatureRead(p)
        \/ CallFunctionRLock(p)
        \/ CallFunctionRead(p)
        \/ EvaluateReturn(p)

WriterStep ==
    \E w \in Writers :
        \/ \E op \in RegistryOps : RegistryLock(w, op)
        \/ RegisterFunctionWrite(w)
        \/ \E name \in RegNames : RegisterFunctionHandlerWrite(w, name)
        \/ \E name \in RegNames : UnregisterFunctionSignature(w, name)
        \/ \E name \in RegNames : UnregisterFunctionHandler(w, name)

NextConc == EvaluatorStep \/ WriterStep

SpecConc == InitConc /\ [][NextConc]_vars

Reads(p) == pc[p] \in {"findSigLocked", "callLocked"}

Writes(p) == pc[p] \in {"writing", "deleting"}

(* C14: every read of the registry maps made during an evaluation holds    *)
(* the registry lock in read mode and every write of RegisterFunction,     *)
(* RegisterFunctionHandler and UnregisterFunction holds it in write mode,  *)
(* so no write to the registry overlaps a read or another write.           *)
C14_RegistryAccessExclusive ==
    /\ \A p \in Procs : Reads(p) => (p \in registryMutex.readers /\ registryMutex.writer = {})
    /\ \A p \in Procs : Writes(p) => (registryMutex.writer = {p} /\ registryMutex.readers = {})
    /\ \A p, q \in Procs : (p # q /\ Writes(p)) => ~(Writes(q) \/ Reads(q))

(* C14: a goroutine is writing the registry while the evaluation is        *)
(* between its two lookups and holds no lock.                              *)
C14_WriteDuringEvaluation ==
    /\ Writes("w1")
    /\ pc["e1"] = "call"
    /\ pc["w2"] = "idle"
    /\ registryMutex.readers = {}

(* What the latest lookup of a goroutine observed. *)
LastSeen(l) == l.seen[Len(l.seen)]

(* C15: the registry gives no snapshot isolation.  Every signature lookup  *)
(* of an evaluation returns what the registry holds at the moment of that  *)
(* lookup, whatever it held when the evaluation started or at an earlier   *)
(* lookup; so an evaluation running while f is registered or unregistered  *)
(* can find f present at one lookup and absent at a later one.             *)
C15_LookupsReadLiveRegistry ==
    [][\A p \in Evaluators :
          (pc[p] = "findSigLocked" /\ pc'[p] # "findSigLocked")
              => /\ Len(local'[p].seen) = Len(local[p].seen) + 1
                 /\ LastSeen(local'[p]).found = (customSignatures[TheCall.Name] # <<>>)]_vars

(* C15: one evaluation has found the signature of f at the first element   *)
(* and has not found it at the second.                                     *)
C15_PresentThenAbsent ==
    \E p \in Evaluators :
        /\ Len(local[p].seen) >= 2
        /\ local[p].seen[1] = Seen("signature", TRUE)
        /\ \E j \in 2..Len(local[p].seen) : local[p].seen[j] = Seen("signature", FALSE)

(***************************************************************************)
(* One AST evaluated more than once: queries with negative indexes, slice  *)
(* bounds and steps, a filter with an index step, filters with function    *)
(* calls, on documents whose arrays differ in length.                      *)
(***************************************************************************)
ShareDocs ==
    {JArr(<<JArr(<<JNum(1), JNum(2)>>), JArr(<<JNum(2), JNum(2), JNum(3)>>)>>),
     ArrayOfLen(MaxLen), ArrayOfLen(0), JArr(<<JStr("ab"), JStr("a")>>)}

LastIs(n) ==
    FilterQueryOf(CompExpr(QueryCmp([Relative |-> TRUE, Segments |-> <<IndexStep(-1)>>]), "CompEq",
                           LitCmp(Lit("LiteralNumber", n))))

ShareQueries ==
    {IndexQuery(-1), IndexQuery(1),
     SliceQuery(<<-2>>, <<>>, <<>>), SliceQuery(<<>>, <<-1>>, <<-1>>), SliceQuery(<<>>, <<>>, <<-1>>),
     Query(<<DescSeg(<<IndexSel(-1)>>)>>),
     LastIs("2"),
     FilterQueryOf(FuncTest(Call("f", <<CurrentArg>>))),
     FilterQueryOf(CompExpr(FuncCmp(Call("length", <<CurrentArg>>)), "CompEq",
                            LitCmp(Lit("LiteralNumber", "2"))))}

InitShare ==
    /\ json \in ShareDocs
    /\ query \in ShareQueries
    /\ InitRest

SpecShare == InitShare /\ [][Next]_vars

RuneError == "RuneError"

Digits == {"0", "1", "2", "3", "4", "5", "6", "7", "8", "9"}

LowerLetters ==
    {"a", "b", "c", "d", "e", "f", "g", "h", "i", "j", "k", "l", "m", "n", "o", "p", "q", "r",
     "s", "t", "u", "v", "w", "x", "y", "z"}

Letters == LowerLetters \cup {"A", "B", "E", "X"}

isDigit(r) == r \in Digits

isNameFirst(r) == r = "_" \/ r \in Letters

isNameChar(r) == isNameFirst(r) \/ isDigit(r)

isFunctionNameFirst(r) == r \in LowerLetters

isFunctionNameChar(r) == isFunctionNameFirst(r) \/ isDigit(r) \/ r = "_"

(* The TLA+ string of a Go string, for the names and literals of the AST.  *)
RECURSIVE Str(_)
Str(cs) == IF cs = <<>> THEN "" ELSE Head(cs) \o Str(Tail(cs))

NewLexer(input) == [input |-> input, pos |-> 0, width |-> 0]

Token(type, value, pos) == [Type |-> type, Value |-> value, Pos |-> pos]

Lexed(l, tok) == [l |-> l, tok |-> tok]

next(l) ==
    IF l.pos >= Len(l.input) THEN [r |-> RuneError, l |-> l]
    ELSE [r |-> l.input[l.pos + 1], l |-> [l EXCEPT !.width = 1, !.pos = @ + 1]]

peek(l) == IF l.pos >= Len(l.input) THEN RuneError ELSE l.input[l.pos + 1]

backup(l) == [l EXCEPT !.pos = @ - l.width]

(* l.input[from:to] *)
Slice(l, from, to) == SubSeq(l.input, from + 1, to)

RECURSIVE skipWhitespace(_)
skipWhitespace(l) ==
    IF peek(l) \in {" ", "\t", "\n", "\r"} THEN skipWhitespace(next(l).l) ELSE l

RECURSIVE skipDigits(_)
skipDigits(l) == IF isDigit(peek(l)) THEN skipDigits(next(l).l) ELSE l

RECURSIVE skipNameChars(_)
skipNameChars(l) == IF isNameChar(peek(l)) THEN skipNameChars(next(l).l) ELSE l

(* The loop of readString: sb is the strings.Builder.  Of the escapes the  *)
(* model has the ones that stand for themselves; no path of the model has  *)
(* a \b, \f, \n, \r, \t or \u escape.                                      *)
RECURSIVE readStringLoop(_, _, _, _)
readStringLoop(l, quote, sb, pos) ==
    LET n == next(l)
        e == next(n.l)
    IN IF n.r = RuneError THEN Lexed(n.l, Token("TokenIllegal", Slice(n.l, pos, n.l.pos), pos))
       ELSE IF n.r = quote THEN Lexed(n.l, Token("TokenString", sb, pos))
       ELSE IF n.r # "\\" THEN readStringLoop(n.l, quote, Append(sb, n.r), pos)
       ELSE IF e.r \in {"/", "\\", "'", "\""} THEN readStringLoop(e.l, quote, Append(sb, e.r), pos)
       ELSE Lexed(e.l, Token("TokenIllegal", sb, pos))

readString(l) == readStringLoop(next(l).l, next(l).r, <<>>, l.pos)

readNumber(l) ==
    LET pos == l.pos
        Illegal(m) == Lexed(m, Token("TokenIllegal", Slice(m, pos, m.pos), pos))
        signed == IF peek(l) = "-" THEN next(l).l ELSE l
        zero == next(signed).l
        int == IF peek(signed) = "0" THEN zero ELSE skipDigits(signed)
        dot == next(int).l
        frac == IF peek(int) = "." THEN skipDigits(dot) ELSE int
        e == next(frac).l
        sign == IF peek(e) \in {"+", "-"} THEN next(e).l ELSE e
        exp == IF peek(frac) \in {"e", "E"} THEN skipDigits(sign) ELSE frac
    IN IF peek(l) = "-" /\ ~isDigit(peek(signed)) THEN Illegal(signed)
       ELSE IF peek(signed) = "0" /\ isDigit(peek(zero)) THEN Illegal(zero)
       ELSE IF peek(int) = "." /\ frac.pos = dot.pos THEN Illegal(frac)
       ELSE IF peek(frac) \in {"e", "E"} /\ exp.pos = sign.pos THEN Illegal(exp)
       ELSE Lexed(exp, Token("TokenNumber", Slice(exp, pos, exp.pos), pos))

readIdent(l) ==
    LET pos == l.pos
        m == skipNameChars(l)
        value == Slice(m, pos, m.pos)
    IN CASE value = <<"t", "r", "u", "e">> -> Lexed(m, Token("TokenTrue", value, pos))
         [] value = <<"f", "a", "l", "s", "e">> -> Lexed(m, Token("TokenFalse", value, pos))
         [] value = <<"n", "u", "l", "l">> -> Lexed(m, Token("TokenNull", value, pos))
         [] OTHER -> Lexed(m, Token("TokenIdent", value, pos))

(* A character that starts a token of one or of two characters.            *)
oneOrTwo(m, r, second, both, alone, pos) ==
    IF peek(m) = second THEN Lexed(next(m).l, Token(both, <<r, second>>, pos))
    ELSE Lexed(m, Token(alone, <<r>>, pos))

NextToken(lexer) ==
    LET l == skipWhitespace(lexer)
        pos == l.pos
        r == next(l).r
        m == next(l).l
        One(type) == Lexed(m, Token(type, <<r>>, pos))
    IN IF r = RuneError THEN Lexed(m, Token("TokenEOF", <<>>, pos))
       ELSE CASE r = "$" -> One("TokenRoot")
              [] r = "@" -> One("TokenCurrent")
              [] r = "." -> oneOrTwo(m, r, ".", "TokenDotDot", "TokenDot", pos)
              [] r = "[" -> One("TokenLBracket")
              [] r = "]" -> One("TokenRBracket")
              [] r = "," -> One("TokenComma")
              [] r = ":" -> One("TokenColon")
              [] r = "?" -> One("TokenQuestion")
              [] r = "*" -> One("TokenWildcard")
              [] r = "(" -> One("TokenLParen")
              [] r = ")" -> One("TokenRParen")
              [] r = "!" -> oneOrTwo(m, r, "=", "TokenNe", "TokenLNot", pos)
              [] r = "=" -> oneOrTwo(m, r, "=", "TokenEq", "TokenIllegal", pos)
              [] r = "<" -> oneOrTwo(m, r, "=", "TokenLe", "TokenLt", pos)
              [] r = ">" -> oneOrTwo(m, r, "=", "TokenGe", "TokenGt", pos)
              [] r = "&" -> oneOrTwo(m, r, "&", "TokenLAnd", "TokenIllegal", pos)
              [] r = "|" -> oneOrTwo(m, r, "|", "TokenLOr", "TokenIllegal", pos)
              [] r \in {"\"", "'"} -> readString(backup(m))
              [] r = "-" \/ isDigit(r) -> readNumber(backup(m))
              [] isNameFirst(r) -> readIdent(backup(m))
              [] OTHER -> One("TokenIllegal")

(***************************************************************************)
(* The parser (unnamed/part_006).  A Parser is its lexer and its curr and  *)
(* peek tokens; fallbacks is a record of the backtrackings of the parse,   *)
(* kept for the properties and read by no operator.  A parse function      *)
(* returns the parser it leaves behind, the node it built (val, nil when   *)
(* it fails) and whether it failed (err).                                  *)
(***************************************************************************)
ZeroToken == Token("TokenIllegal", <<>>, 0)

(* NextToken is a function of the input and of the offset it starts at:   *)
(* Tokens is its value at every offset, and a Parser carries it with its   *)
(* lexer so that advance looks the next token up.  The width in an entry   *)
(* is 0 when NextToken read no character: it then leaves the width alone.  *)
Tokens(input) ==
    [pos \in 0..Len(input) |-> NextToken([input |-> input, pos |-> pos, width |-> 0])]

NewParser(input) ==
    [lexer |-> NewLexer(input), tokens |-> Tokens(input), curr |-> ZeroToken,
     peek |-> ZeroToken, fallbacks |-> <<>>]

Parsed(p, node) == [p |-> p, val |-> <<node>>, err |-> FALSE]

Failed(p) == [p |-> p, val |-> <<>>, err |-> TRUE]

advance(p) ==
    [p EXCEPT !.curr = p.peek,
              !.peek = p.tokens[p.lexer.pos].tok,
              !.lexer = [p.tokens[p.lexer.pos].l EXCEPT
                           !.width = IF @ = 0 THEN p.lexer.width ELSE @]]

(* TRUE when expectToken returns a nil error. *)
expectToken(p, tokenType) == p.curr.Type = tokenType

OrExpr(l, r) == [ZeroExpr EXCEPT !.Left = <<l>>, !.Right = <<r>>]

AndExpr(l, r) == [ZeroExpr EXCEPT !.Type = "FilterLogicalAnd", !.Left = <<l>>, !.Right = <<r>>]

ParenExpr(e) == [ZeroExpr EXCEPT !.Type = "FilterParen", !.Operand = <<e>>]

TestFilter(test) == [ZeroExpr EXCEPT !.Type = "FilterTest", !.Test = <<test>>]

(* fmt.Sscanf(s, "%d", &i): an optional sign and the digits that follow;   *)
(* what comes after the digits is left unread.  No number of the model is  *)
(* out of the range of int64.                                              *)
RECURSIVE scanDigits(_, _, _)
scanDigits(s, i, acc) ==
    IF i <= Len(s) /\ isDigit(s[i])
    THEN scanDigits(s, i + 1, 10 * acc + (CHOOSE d \in 0..9 : ToString(d) = s[i]))
    ELSE [i |-> i, n |-> acc]

parseInteger(s) ==
    LET signed == Len(s) > 0 /\ s[1] \in {"+", "-"}
        from == IF signed THEN 2 ELSE 1
        d == scanDigits(s, from, 0)
    IN IF d.i = from THEN [err |-> TRUE, i |-> 0]
       ELSE [err |-> FALSE, i |-> IF signed /\ s[1] = "-" THEN 0 - d.n ELSE d.n]

RECURSIVE isValidFunctionNameFrom(_, _)
isValidFunctionNameFrom(name, i) ==
    IF i > Len(name) THEN TRUE
    ELSE IF i = 1 /\ ~isFunctionNameFirst(name[i]) THEN FALSE
    ELSE IF ~isFunctionNameChar(name[i]) THEN FALSE
    ELSE isValidFunctionNameFrom(name, i + 1)

isValidFunctionName(name) == isValidFunctionNameFrom(name, 1)

LiteralTokens == {"TokenString", "TokenNumber", "TokenTrue", "TokenFalse", "TokenNull"}

NameTokens == {"TokenIdent", "TokenNull", "TokenTrue", "TokenFalse"}

(* A singular segment that takes `.*` for a name. *)
SingularNameTokensAndWildcard == NameTokens \cup {"TokenWildcard"}

(* The tokens parseSingularSegment takes for a name after `.`. *)
SingularNameTokens == {"TokenIdent", "TokenNull", "TokenTrue", "TokenFalse"}

ComparisonTokens == {"TokenEq", "TokenNe", "TokenLt", "TokenLe", "TokenGt", "TokenGe"}

parseLiteral(p) ==
    CASE p.curr.Type = "TokenString" ->
           Parsed(advance(p), Lit("LiteralString", Str(p.curr.Value)))
      [] p.curr.Type = "TokenNumber" ->
           Parsed(advance(p), Lit("LiteralNumber", Str(p.curr.Value)))
      [] p.curr.Type = "TokenTrue" -> Parsed(advance(p), Lit("LiteralTrue", Str(p.curr.Value)))
      [] p.curr.Type = "TokenFalse" ->
           Parsed(advance(p), Lit("LiteralFalse", Str(p.curr.Value)))
      [] p.curr.Type = "TokenNull" -> Parsed(advance(p), Lit("LiteralNull", Str(p.curr.Value)))
      [] OTHER -> Failed(p)

parseComparisonOp(p) ==
    CASE p.curr.Type = "TokenEq" -> Parsed(advance(p), "CompEq")
      [] p.curr.Type = "TokenNe" -> Parsed(advance(p), "CompNe")
      [] p.curr.Type = "TokenLt" -> Parsed(advance(p), "CompLt")
      [] p.curr.Type = "TokenLe" -> Parsed(advance(p), "CompLe")
      [] p.curr.Type = "TokenGt" -> Parsed(advance(p), "CompGt")
      [] p.curr.Type = "TokenGe" -> Parsed(advance(p), "CompGe")
      [] OTHER -> Failed(p)

(* The step after `[` of parseSingularSegment: the token that must close   *)
(* the bracket.                                                            *)
closeSingular(p, seg) ==
    IF ~expectToken(p, "TokenRBracket") THEN Failed(p) ELSE Parsed(advance(p), seg)

parseSingularSegment(p) ==
    LET q == advance(p)
        index == parseInteger(q.curr.Value)
    IN CASE p.curr.Type = "TokenDot" ->
              IF q.curr.Type \in SingularNameTokens
              THEN Parsed(advance(q), NameStep(Str(q.curr.Value)))
              ELSE Failed(q)
         [] p.curr.Type = "TokenLBracket" ->
              CASE q.curr.Type = "TokenString" ->
                     closeSingular(advance(q), NameStep(Str(q.curr.Value)))
                [] q.curr.Type = "TokenNumber" ->
                     IF index.err THEN Failed(q)
                     ELSE closeSingular(advance(q), IndexStep(index.i))
                [] OTHER -> Failed(q)
         [] OTHER -> Failed(p)

RECURSIVE singularSegments(_, _, _)
singularSegments(p, relative, segments) ==
    LET seg == parseSingularSegment(p)
    IN IF p.curr.Type \notin {"TokenDot", "TokenLBracket"}
       THEN Parsed(p, [Relative |-> relative, Segments |-> segments])
       ELSE IF seg.err THEN Failed(seg.p)
       ELSE singularSegments(seg.p, relative, Append(segments, seg.val[1]))

parseSingularQuery(p) ==
    CASE p.curr.Type = "TokenRoot" -> singularSegments(advance(p), FALSE, <<>>)
      [] p.curr.Type = "TokenCurrent" -> singularSegments(advance(p), TRUE, <<>>)
      [] OTHER -> Failed(p)

(* An optional number of parseSliceSelector. *)
sliceNumber(p) ==
    LET n == parseInteger(p.curr.Value)
    IN IF p.curr.Type # "TokenNumber" THEN [p |-> p, val |-> <<>>, err |-> FALSE]
       ELSE IF n.err THEN Failed(p)
       ELSE Parsed(advance(p), n.i)

parseSliceSelector(p) ==
    LET start == sliceNumber(p)
        end == sliceNumber(advance(start.p))
        colon == advance(end.p)
        n == parseInteger(colon.curr.Value)
    IN IF start.err THEN Failed(start.p)
       ELSE IF ~expectToken(start.p, "TokenColon") THEN Failed(start.p)
       ELSE IF end.err THEN Failed(end.p)
       ELSE IF end.p.curr.Type # "TokenColon"
       THEN Parsed(end.p, SliceSel(start.val, end.val, <<>>))
       ELSE IF colon.curr.Type # "TokenNumber" THEN Failed(colon)
       ELSE IF n.err THEN Failed(colon)
       ELSE Parsed(advance(colon), SliceSel(start.val, end.val, <<n.i>>))

parseIndexSelector(p) ==
    LET index == parseInteger(p.curr.Value)
    IN IF ~expectToken(p, "TokenNumber") THEN Failed(p)
       ELSE IF index.err THEN Failed(p)
       ELSE Parsed(advance(p), IndexSel(index.i))

RECURSIVE parseSegment(_), parseBracketSegment(_, _), parseSelector(_), parseLogicalExpr(_),
          parseLogicalAndExpr(_), parseBasicExpr(_), parseComparable(_), parseTestExpr(_),
          parseFilterQuery(_), parseFunctionExpr(_), parseFuncArg(_), querySegments(_, _),
          selectorsLoop(_, _), orLoop(_, _), andLoop(_, _), filterSegments(_, _, _),
          funcArgs(_, _, _)

(* parseQuery returning the query built so far next to the error. *)
querySegmentPartial(r, segments) ==
    IF r.err THEN [p |-> r.p, val |-> <<Query(segments)>>, err |-> TRUE]
    ELSE querySegments(r.p, Append(segments, r.val[1]))

(* The loop of parseQuery and the segment it has just parsed. *)
querySegment(r, segments) ==
    IF r.err THEN Failed(r.p) ELSE querySegments(r.p, Append(segments, r.val[1]))

querySegments(p, segments) ==
    IF p.curr.Type = "TokenEOF" THEN Parsed(p, Query(segments))
    ELSE querySegment(parseSegment(p), segments)

parseQuery(p) ==
    IF ~expectToken(p, "TokenRoot") THEN Failed(p) ELSE querySegments(advance(p), <<>>)

(* `.name`, `.*`, `..name` and `..*`: what parseDotSegment and             *)
(* parseDescendantSegment do with a token that is not `[`.                 *)
shorthand(p, segType) ==
    CASE p.curr.Type = "TokenWildcard" ->
           Parsed(advance(p), [Type |-> segType, Selectors |-> <<WildSel>>])
      [] p.curr.Type \in NameTokens ->
           Parsed(advance(p), [Type |-> segType, Selectors |-> <<NameSel(Str(p.curr.Value))>>])
      [] OTHER -> Failed(p)

parseDescendantSegment(p) ==
    IF p.curr.Type = "TokenLBracket" THEN parseBracketSegment(p, "DescendantSegment")
    ELSE shorthand(p, "DescendantSegment")

parseDotSegment(p) == shorthand(p, "ChildSegment")

parseSegment(p) ==
    CASE p.curr.Type = "TokenDotDot" -> parseDescendantSegment(advance(p))
      [] p.curr.Type = "TokenDot" -> parseDotSegment(advance(p))
      [] p.curr.Type = "TokenLBracket" -> parseBracketSegment(p, "ChildSegment")
      [] OTHER -> Failed(p)

(* The loop of parseSelectors and the selector it has just parsed. *)
selectorsLoop(r, selectors) ==
    IF r.err THEN Failed(r.p)
    ELSE IF r.p.curr.Type = "TokenComma"
    THEN selectorsLoop(parseSelector(advance(r.p)), Append(selectors, r.val[1]))
    ELSE [p |-> r.p, val |-> Append(selectors, r.val[1]), err |-> FALSE]

parseSelectors(p) == selectorsLoop(parseSelector(p), <<>>)

(* parseBracketSegment after its selectors. *)
closeBracket(r, segType) ==
    IF r.err THEN Failed(r.p)
    ELSE IF ~expectToken(r.p, "TokenRBracket") THEN Failed(r.p)
    ELSE Parsed(advance(r.p), [Type |-> segType, Selectors |-> r.val])

parseBracketSegment(p, segType) ==
    IF ~expectToken(p, "TokenLBracket") THEN Failed(p)
    ELSE closeBracket(parseSelectors(advance(p)), segType)

filterSelectorOf(r) == IF r.err THEN Failed(r.p) ELSE Parsed(r.p, FilterSel(r.val[1]))

parseFilterSelector(p) ==
    IF ~expectToken(p, "TokenQuestion") THEN Failed(p)
    ELSE filterSelectorOf(parseLogicalExpr(advance(p)))

parseSelector(p) ==
    CASE p.curr.Type = "TokenString" -> Parsed(advance(p), NameSel(Str(p.curr.Value)))
      [] p.curr.Type = "TokenWildcard" -> Parsed(advance(p), WildSel)
      [] p.curr.Type = "TokenNumber" ->
           IF p.peek.Type = "TokenColon" THEN parseSliceSelector(p) ELSE parseIndexSelector(p)
      [] p.curr.Type = "TokenColon" -> parseSliceSelector(p)
      [] p.curr.Type = "TokenQuestion" -> parseFilterSelector(p)
      [] OTHER -> Failed(p)

(* The loop of parseLogicalOrExpr and the operand it has just parsed. *)
orOperand(r, left, isFirst) ==
    IF r.err THEN Failed(r.p)
    ELSE orLoop(r.p, IF isFirst THEN r.val[1] ELSE OrExpr(left[1], r.val[1]))

orLoop(p, left) ==
    IF p.curr.Type = "TokenLOr" THEN orOperand(parseLogicalAndExpr(advance(p)), <<left>>, FALSE)
    ELSE Parsed(p, left)

parseLogicalOrExpr(p) == orOperand(parseLogicalAndExpr(p), <<>>, TRUE)

parseLogicalExpr(p) == parseLogicalOrExpr(p)

(* The loop of parseLogicalAndExpr and the operand it has just parsed. *)
andOperand(r, left, isFirst) ==
    IF r.err THEN Failed(r.p)
    ELSE andLoop(r.p, IF isFirst THEN r.val[1] ELSE AndExpr(left[1], r.val[1]))

andLoop(p, left) ==
    IF p.curr.Type = "TokenLAnd" THEN andOperand(parseBasicExpr(advance(p)), <<left>>, FALSE)
    ELSE Parsed(p, left)

parseLogicalAndExpr(p) == andOperand(parseBasicExpr(p), <<>>, TRUE)
(* A negated parenthesis that loses its Paren node. *)
wrapParenNotOnly(expr, hasNot) == IF hasNot THEN NotExpr(expr) ELSE ParenExpr(expr)

(* parseParenExpr after `)`: the Paren node, and the Not node around it. *)
wrapParen(expr, hasNot) == IF hasNot THEN NotExpr(ParenExpr(expr)) ELSE ParenExpr(expr)

closeParen(r, hasNot) ==
    IF r.err THEN Failed(r.p)
    ELSE IF ~expectToken(r.p, "TokenRParen") THEN Failed(r.p)
    ELSE Parsed(advance(r.p), wrapParen(r.val[1], hasNot))

openParen(p, hasNot) ==
    IF ~expectToken(p, "TokenLParen") THEN Failed(p)
    ELSE closeParen(parseLogicalExpr(advance(p)), hasNot)

parseParenExpr(p) ==
    IF p.curr.Type = "TokenLNot" THEN openParen(advance(p), TRUE) ELSE openParen(p, FALSE)

(* parseComparisonExpr after its left comparable and after its right one. *)
comparisonOf(left, op, r) ==
    IF r.err THEN Failed(r.p)
    ELSE Parsed(r.p, [Left |-> left, Op |-> op, Right |-> r.val[1]])

comparisonRight(left, op) ==
    IF op.err THEN Failed(op.p) ELSE comparisonOf(left, op.val[1], parseComparable(op.p))

comparisonOp(l) ==
    IF l.err THEN Failed(l.p) ELSE comparisonRight(l.val[1], parseComparisonOp(l.p))

parseComparisonExpr(p) == comparisonOp(parseComparable(p))

comparableOf(r, type) ==
    IF r.err THEN Failed(r.p)
    ELSE Parsed(r.p, CASE type = "ComparableLiteral" -> LitCmp(r.val[1])
                       [] type = "ComparableSingularQuery" -> QueryCmp(r.val[1])
                       [] type = "ComparableFuncExpr" -> FuncCmp(r.val[1]))

parseComparable(p) ==
    CASE p.curr.Type \in LiteralTokens -> comparableOf(parseLiteral(p), "ComparableLiteral")
      [] p.curr.Type \in {"TokenRoot", "TokenCurrent"} ->
           comparableOf(parseSingularQuery(p), "ComparableSingularQuery")
      [] p.curr.Type = "TokenIdent" ->
           IF p.peek.Type = "TokenLParen"
           THEN comparableOf(parseFunctionExpr(p), "ComparableFuncExpr")
           ELSE Parsed(advance(p), LitCmp(Lit("LiteralString", Str(p.curr.Value))))
      [] OTHER -> Failed(p)

(* Going back to the tokens of the checkpoint and leaving the lexer where  *)
(* the failed attempt left it.                                             *)
restoreTokensOnly(saved, p) == [p EXCEPT !.curr = saved.curr, !.peek = saved.peek]

(* The checkpoint parseBasicExprWithFallback saves and goes back to: curr, *)
(* peek and the offset of the lexer.                                       *)
restore(saved, p) ==
    [p EXCEPT !.curr = saved.curr, !.peek = saved.peek, !.lexer.pos = saved.lexer.pos]

(* What a backtracking started from, what the test parse started from and  *)
(* what the test parse returned.                                           *)
Checkpoint(p) == [curr |-> p.curr, peek |-> p.peek, lexer |-> p.lexer]

(* A backtracking: where the comparison attempt started and where it gave  *)
(* up, where the test parse started and what the test parse returned.      *)
Fallback(saved, failed, restored, t) ==
    [saved |-> Checkpoint(saved), failed |-> Checkpoint(failed),
     restored |-> Checkpoint(restored), val |-> t.val, err |-> t.err]

testFilterOf(saved, failed, restored, t) ==
    LET p == [t.p EXCEPT !.fallbacks = Append(@, Fallback(saved, failed, restored, t))]
    IN IF t.err THEN Failed(p) ELSE Parsed(p, TestFilter(t.val[1]))

fallbackTo(saved, failed, restored) ==
    testFilterOf(saved, failed, restored, parseTestExpr(restored))

comparisonOrTest(saved, comp) ==
    IF ~comp.err
    THEN Parsed(comp.p, CompExpr(comp.val[1].Left, comp.val[1].Op, comp.val[1].Right))
    ELSE fallbackTo(saved, comp.p, restore(saved, comp.p))

parseBasicExprWithFallback(p) == comparisonOrTest(p, parseComparisonExpr(p))

notTest(r) == IF r.err THEN Failed(r.p) ELSE Parsed(r.p, NotExpr(TestFilter(r.val[1])))

parseBasicExpr(p) ==
    IF p.curr.Type = "TokenLNot"
    THEN IF p.peek.Type = "TokenLParen" THEN parseParenExpr(p)
         ELSE notTest(parseTestExpr(advance(p)))
    ELSE IF p.curr.Type = "TokenLParen" THEN parseParenExpr(p)
    ELSE parseBasicExprWithFallback(p)

testExprOf(r, isQuery) ==
    IF r.err THEN Failed(r.p)
    ELSE Parsed(r.p, IF isQuery THEN [FilterQuery |-> r.val, FuncExpr |-> <<>>]
                     ELSE [FilterQuery |-> <<>>, FuncExpr |-> r.val])

parseTestExpr(p) ==
    CASE p.curr.Type \in {"TokenRoot", "TokenCurrent"} -> testExprOf(parseFilterQuery(p), TRUE)
      [] p.curr.Type = "TokenIdent" -> testExprOf(parseFunctionExpr(p), FALSE)
      [] OTHER -> Failed(p)

(* The loop of parseFilterQuery and the segment it has just parsed. *)
filterSegment(r, relative, segments) ==
    IF r.err THEN Failed(r.p) ELSE filterSegments(r.p, relative, Append(segments, r.val[1]))

filterSegments(p, relative, segments) ==
    IF p.curr.Type \in {"TokenDot", "TokenDotDot", "TokenLBracket"}
    THEN filterSegment(parseSegment(p), relative, segments)
    ELSE Parsed(p, [Relative |-> relative, Segments |-> segments])

parseFilterQuery(p) ==
    CASE p.curr.Type = "TokenRoot" -> filterSegments(advance(p), FALSE, <<>>)
      [] p.curr.Type = "TokenCurrent" -> filterSegments(advance(p), TRUE, <<>>)
      [] OTHER -> filterSegments(p, TRUE, <<>>)

(* parseFunctionExpr after its arguments, and the loop over them. *)
closeCall(p, name, args) ==
    IF ~expectToken(p, "TokenRParen") THEN Failed(p)
    ELSE Parsed(advance(p), Call(Str(name), args))

funcArgs(r, name, args) ==
    IF r.err THEN Failed(r.p)
    ELSE IF r.p.curr.Type = "TokenComma"
    THEN funcArgs(parseFuncArg(advance(r.p)), name, Append(args, r.val[1]))
    ELSE closeCall(r.p, name, Append(args, r.val[1]))

parseFunctionExpr(p) ==
    LET name == p.curr.Value
        paren == advance(p)
        arg == advance(paren)
    IN IF ~expectToken(p, "TokenIdent") THEN Failed(p)
       ELSE IF ~isValidFunctionName(name) THEN Failed(p)
       ELSE IF ~expectToken(paren, "TokenLParen") THEN Failed(paren)
       ELSE IF arg.curr.Type # "TokenRParen" THEN funcArgs(parseFuncArg(arg), name, <<>>)
       ELSE closeCall(arg, name, <<>>)

(* parseFuncArgRootOrCurrent after the right operand of `&&` or `||`: the  *)
(* FuncArg and the FilterExpr of the left operand keep the zero Type.      *)
andOrArg(r, type, fq) ==
    IF r.err THEN Failed(r.p)
    ELSE Parsed(r.p, [ZeroFuncArg EXCEPT !.LogicalExpr =
                        <<[ZeroExpr EXCEPT !.Type = type,
                                           !.Left = <<[ZeroExpr EXCEPT !.Test =
                                                <<[FilterQuery |-> <<fq>>, FuncExpr |-> <<>>]>>]>>,
                                           !.Right = r.val]>>])

comparisonArgOf(r) ==
    IF r.err THEN Failed(r.p)
    ELSE Parsed(r.p, CompArg(r.val[1].Left, r.val[1].Op, r.val[1].Right))

afterArgQuery(saved, q) ==
    IF q.err THEN Failed(q.p)
    ELSE CASE q.p.curr.Type = "TokenLAnd" ->
                andOrArg(parseLogicalExpr(advance(q.p)), "FilterLogicalAnd", q.val[1])
           [] q.p.curr.Type = "TokenLOr" ->
                andOrArg(parseLogicalExpr(advance(q.p)), "FilterLogicalOr", q.val[1])
           [] q.p.curr.Type \in ComparisonTokens ->
                comparisonArgOf(parseComparisonExpr(restore(saved, q.p)))
           [] OTHER -> Parsed(q.p, QueryArg(q.val[1]))

parseFuncArgRootOrCurrent(p) == afterArgQuery(p, parseFilterQuery(p))

funcArgOf(r, isLiteral) ==
    IF r.err THEN Failed(r.p)
    ELSE Parsed(r.p, IF isLiteral THEN LitArg(r.val[1]) ELSE CallArg(r.val[1]))

parseFuncArg(p) ==
    CASE p.curr.Type \in LiteralTokens -> funcArgOf(parseLiteral(p), TRUE)
      [] p.curr.Type \in {"TokenRoot", "TokenCurrent"} -> parseFuncArgRootOrCurrent(p)
      [] p.curr.Type = "TokenIdent" -> funcArgOf(parseFunctionExpr(p), FALSE)
      [] OTHER -> Failed(p)

(* Parse: the Query, or nil and an error. *)
Parse(text) == parseQuery(advance(advance(NewParser(text))))

(***************************************************************************)
(* Parse on filter paths `$[?...]` whose expression is a test, a           *)
(* comparison, a negation, a parenthesis, a conjunction, a disjunction or  *)
(* a function call, on paths without a filter, and on every text one of    *)
(* these paths starts with.                                                *)
(***************************************************************************)
SingularTexts ==
    {<<"@">>, <<"@", ".", "a">>, <<"@", "[", "0", "]">>, <<"@", "[", "'", "a", "'", "]">>,
     <<"$", ".", "b">>, <<"@", ".", "a", "[", "-", "1", "]">>}

NonSingularTexts ==
    {<<"@", ".", "*">>, <<"@", "[", "*", "]">>, <<"@", "[", "0", ":", "1", "]">>,
     <<"@", "[", ":", "]">>, <<"@", "[", "?", "@", ".", "a", "]">>, <<"@", ".", ".", "a">>,
     <<"@", "[", "0", ",", "1", "]">>, <<"$", "[", "*", "]">>, <<"$", ".", "a", ".", "*">>}

LiteralTexts == {<<"1">>, <<"'", "a", "'">>, <<"n", "u", "l", "l">>, <<"b">>}

CallTexts == {<<"f", "(", "@", ".", "a", ")">>, <<"f", "(", "@", ".", "*", ")">>}

OperatorTexts == {<<"=", "=">>, <<"<">>, <<" ", "!", "=", " ">>}

ComparableTexts == SingularTexts \cup NonSingularTexts \cup LiteralTexts \cup CallTexts

ComparisonTexts == {l \o op \o r : l \in ComparableTexts, op \in OperatorTexts, r \in ComparableTexts}

(* The comparisons one of whose `$`/`@` operands is not a singular query. *)
NonSingularComparisons ==
    {l \o op \o r : l \in NonSingularTexts, op \in OperatorTexts, r \in ComparableTexts}
        \cup {l \o op \o r : l \in ComparableTexts, op \in OperatorTexts, r \in NonSingularTexts}

TestTexts == SingularTexts \cup NonSingularTexts \cup CallTexts

SingularComparisons == {<<"@", ".", "a", "=", "=", "1">>, <<"1", "<", "@", "[", "0", "]">>}

SomeNonSingularComparisons ==
    {<<"@", ".", "*", "=", "=", "1">>, <<"1", "=", "=", "@", "[", "*", "]">>}

SomeComparisons == SingularComparisons \cup SomeNonSingularComparisons

BasicTexts == TestTexts \cup SomeComparisons

Connectives == {<<"&", "&">>, <<" ", "|", "|", " ">>}

Connected(L, R) == {l \o c \o r : l \in L, c \in Connectives, r \in R}

LeftTexts == {<<"@", ".", "a">>, <<"@", ".", "*">>} \cup SomeComparisons

RightTexts == {<<"@", ".", "b">>, <<"!", "@", ".", "b">>} \cup SomeComparisons

LogicalTexts == BasicTexts \cup Connected(LeftTexts, RightTexts)

Not(e) == <<"!">> \o e

InParens(e) == <<"(">> \o e \o <<")">>

InSpacedParens(e) == <<"(", " ">> \o e \o <<" ", ")">>

InCall(e) == <<"f", "(">> \o e \o <<")">>

(* The expressions around the logical expressions of L. *)
Around(L) ==
    {InParens(e) : e \in L} \cup {Not(InParens(e)) : e \in L}
        \cup {Not(InSpacedParens(e)) : e \in L} \cup {<<"!", " ">> \o InParens(e) : e \in L}
        \cup {InCall(e) : e \in L}

FilterTexts ==
    ComparisonTexts \cup LogicalTexts \cup Around(LogicalTexts)
        \cup {Not(e) : e \in TestTexts \cup SomeComparisons}
        \cup {InParens(e) \o <<"=", "=", "1">> : e \in NonSingularTexts}
        \cup {InCall(e) \o <<"=", "=", "1">> : e \in SomeComparisons}

(* The filter expressions with a comparison one of whose `$`/`@` operands  *)
(* is not a singular query.                                                *)
NonSingularLogicalTexts ==
    SomeNonSingularComparisons \cup Connected(SomeNonSingularComparisons, RightTexts)
        \cup Connected(LeftTexts, SomeNonSingularComparisons)

NonSingularFilterTexts ==
    NonSingularComparisons \cup NonSingularLogicalTexts \cup Around(NonSingularLogicalTexts)
        \cup {Not(e) : e \in SomeNonSingularComparisons}
        \cup {InCall(e) \o <<"=", "=", "1">> : e \in SomeNonSingularComparisons}

FilterPath(e) == <<"$", "[", "?">> \o e \o <<"]">>

PlainPaths ==
    {<<"$">>, <<"$", ".", "a", ".", ".", "b">>, <<"$", "[", "0", ",", "'", "a", "'", "]">>,
     <<"$", "[", "1", ":", "2", ":", "-", "1", "]">>, <<"$", ".", ".", "[", "*", "]">>,
     <<"$", ".", "t", "r", "u", "e">>, <<"$", "[", "\"", "a", "\"", "]", " ", "[", ":", "]">>,
     <<"$", "[", "0", "1", "]">>, <<"$", "[", "1", ".", "5", "e", "2", "]">>,
     <<"@", ".", "a">>, <<"$", ".", "a", "=", "b">>, <<"$", ".", "#">>}

WholePaths == PlainPaths \cup {FilterPath(e) : e \in FilterTexts}

Prefixes(t) == {SubSeq(t, 1, n) : n \in 0..Len(t)}

Paths == UNION {Prefixes(t) : t \in WholePaths}

InitParse ==
    /\ json = JNull
    /\ query = Query(<<>>)
    /\ InitRun
    /\ path \in Paths
    /\ parsed = NoParse

(* What Parse returns: the *Query and the error. *)
Returned(r) == [done |-> TRUE, query |-> r.val, err |-> r.err, fallbacks |-> r.p.fallbacks]

ParseCall ==
    /\ ~parsed.done
    /\ parsed' = Returned(Parse(path))
    /\ UNCHANGED <<path, lexed, json, query, out, first, evals, mapSeed, customSignatures,
                   customHandlers, goroutines>>

SpecParse == InitParse /\ [][ParseCall]_vars

(***************************************************************************)
(* C17.  Parse is all-or-nothing: for every text it returns either a Query *)
(* and a nil error, or a nil Query and an error; it never returns what it  *)
(* had built of the AST next to an error.                                  *)
(***************************************************************************)
C17_ParseAllOrNothing ==
    parsed.done => \/ parsed.query # <<>> /\ ~parsed.err
                   \/ parsed.query = <<>> /\ parsed.err

(* Parse fails on `$.a=b` after it has built the segment `.a`, which is a  *)
(* query of its own.                                                       *)
C17_ErrorAfterSegment ==
    /\ parsed.done
    /\ parsed.err
    /\ parsed.query = <<>>
    /\ path = <<"$", ".", "a", "=", "b">>
    /\ ~Parse(<<"$", ".", "a">>).err

(***************************************************************************)
(* C18.  Parse rejects a filter comparison one of whose `$`/`@` operands   *)
(* has a wildcard, a slice, a filter, a descendant segment or several      *)
(* selectors, also after it has gone back and parsed the operand as a      *)
(* test; and in the AST of a path it accepts, the query of a comparison is *)
(* made of single name and index steps.                                    *)
(***************************************************************************)
SingularOnly(sq) ==
    \A i \in 1..Len(sq.Segments) :
        sq.Segments[i].Type \in {"SingularNameSegment", "SingularIndexSegment"}

RECURSIVE ComparisonsSingular(_), CallSingular(_), SegmentsSingular(_)

ComparableOk(c) ==
    /\ c.Type = "ComparableSingularQuery" => SingularOnly(c.SingularQuery[1])
    /\ c.Type = "ComparableFuncExpr" => CallSingular(c.FuncExpr[1])

ComparisonsSingular(e) ==
    /\ \A o \in {e.Left, e.Right, e.Operand} : o # <<>> => ComparisonsSingular(o[1])
    /\ e.Comp # <<>> => ComparableOk(e.Comp[1].Left) /\ ComparableOk(e.Comp[1].Right)
    /\ e.Test # <<>> =>
         /\ e.Test[1].FilterQuery # <<>> => SegmentsSingular(e.Test[1].FilterQuery[1].Segments)
         /\ e.Test[1].FuncExpr # <<>> => CallSingular(e.Test[1].FuncExpr[1])

CallSingular(fn) ==
    \A i \in 1..Len(fn.Args) :
        /\ fn.Args[i].FilterQuery # <<>> => SegmentsSingular(fn.Args[i].FilterQuery[1].Segments)
        /\ fn.Args[i].LogicalExpr # <<>> => ComparisonsSingular(fn.Args[i].LogicalExpr[1])
        /\ fn.Args[i].FuncExpr # <<>> => CallSingular(fn.Args[i].FuncExpr[1])

SegmentsSingular(segments) ==
    \A i \in 1..Len(segments) :
        \A j \in 1..Len(segments[i].Selectors) :
            segments[i].Selectors[j].Filter # <<>> =>
                ComparisonsSingular(segments[i].Selectors[j].Filter[1])

NonSingularPaths == {FilterPath(e) : e \in NonSingularFilterTexts}

C18_NonSingularComparisonRejected ==
    parsed.done =>
        /\ path \in NonSingularPaths => parsed.err
        /\ ~parsed.err => SegmentsSingular(parsed.query[1].Segments)

(* `$[?@.* == 1]`: the comparison attempt fails at `*`, the test parse     *)
(* takes `@.*`, and Parse fails at the `==` that is left.                  *)
C18_RejectedAfterFallback ==
    /\ parsed.done
    /\ path = FilterPath(<<"@", ".", "*", "=", "=", "1">>)
    /\ Len(parsed.fallbacks) = 1
    /\ ~parsed.fallbacks[1].err
    /\ parsed.err
    /\ ~Parse(FilterPath(<<"@", ".", "a", "=", "=", "1">>)).err

(***************************************************************************)
(* C19.  When the comparison attempt of parseBasicExprWithFallback fails,  *)
(* the test parse starts with the current token, the peek token and the    *)
(* lexer offset the attempt started with, and it returns what              *)
(* parseTestExpr returns for a parser that made no attempt.                *)
(***************************************************************************)
ParserAt(c) ==
    [lexer |-> c.lexer, tokens |-> Tokens(c.lexer.input), curr |-> c.curr, peek |-> c.peek,
     fallbacks |-> <<>>]

SameTest(t, f) == t.val = f.val /\ t.err = f.err

C19_FallbackRestoresCheckpoint ==
    \A i \in 1..Len(parsed.fallbacks) :
        /\ parsed.fallbacks[i].restored.curr = parsed.fallbacks[i].saved.curr
        /\ parsed.fallbacks[i].restored.peek = parsed.fallbacks[i].saved.peek
        /\ parsed.fallbacks[i].restored.lexer.pos = parsed.fallbacks[i].saved.lexer.pos
        /\ SameTest(parseTestExpr(ParserAt(parsed.fallbacks[i].saved)), parsed.fallbacks[i])

(* `$[?@.a[-1] && @.b]`: the comparison attempt reads up to `&&` and       *)
(* fails there, the lexer being three tokens further than at its start;    *)
(* the test parse then takes `@.a[-1]`.                                    *)
C19_BacktrackedOverTokens ==
    /\ parsed.done
    /\ ~parsed.err
    /\ \E i \in 1..Len(parsed.fallbacks) :
          /\ parsed.fallbacks[i].failed.lexer.pos > parsed.fallbacks[i].saved.lexer.pos + 3
          /\ parsed.fallbacks[i].failed.curr.Type = "TokenLAnd"
          /\ ~parsed.fallbacks[i].err

(***************************************************************************)
(* C20.  For a logical expression E, the filter `!(E)`, with or without    *)
(* blanks after `!` and inside the parentheses, parses to a Not node over  *)
(* a Paren node over the expression Parse gives for E alone; it is         *)
(* rejected when E is.                                                     *)
(***************************************************************************)
NegatedParens(e) ==
    {FilterPath(Not(InParens(e))), FilterPath(Not(InSpacedParens(e))),
     FilterPath(<<"!", " ">> \o InParens(e))}

FilterOf(q) == q[1].Segments[1].Selectors[1].Filter[1]

FilterQueryOnly(expr) == <<Query(<<ChildSeg(<<FilterSel(expr)>>)>>)>>

NotOfParenOf(inner) ==
    IF inner.err THEN parsed.err
    ELSE /\ ~parsed.err
         /\ parsed.query = FilterQueryOnly(NotExpr(ParenExpr(FilterOf(inner.val))))

C20_NegatedParenKeepsParen ==
    parsed.done =>
        \A e \in LogicalTexts :
            path \in NegatedParens(e) => NotOfParenOf(Parse(FilterPath(e)))

(* `$[?!( @.a&&@.b )]` parses to Not(Paren(And(test, test))), and          *)
(* `$[?!(@.a)]` to a Not over a Paren, not to the negated test of          *)
(* `$[?!@.a]`.                                                             *)
C20_NegatedConjunctionParsed ==
    /\ parsed.done
    /\ path = FilterPath(Not(InSpacedParens(<<"@", ".", "a", "&", "&", "@", ".", "b">>)))
    /\ ~parsed.err
    /\ FilterOf(parsed.query).Type = "FilterLogicalNot"
    /\ FilterOf(parsed.query).Operand[1].Type = "FilterParen"
    /\ FilterOf(parsed.query).Operand[1].Operand[1].Type = "FilterLogicalAnd"
    /\ FilterOf(Parse(FilterPath(<<"!", "(", "@", ".", "a", ")">>)).val)
           # FilterOf(Parse(FilterPath(<<"!", "@", ".", "a">>)).val)

(***************************************************************************)
(* Arguments of function calls: `$[?call(A)]` and `$[?call(A) == k]` as    *)
(* Parse returns them, on a one-element array.  A is a query of zero, one  *)
(* or several nodes or a logical expression; the call is a built-in or the *)
(* custom function f, registered with a parameter of each of the three     *)
(* types and with the handler that returns its logical argument.           *)
(***************************************************************************)
ArgValues ==
    {JArr(<<>>), JArr(<<JNum(1)>>), JArr(<<JNum(2), JNum(1)>>), JObj(<<"a">>, <<JNum(1)>>),
     JObj(<<"b", "a">>, <<JNum(2), JArr(<<JNum(1)>>)>>), JObj(<<"b">>, <<JNum(1)>>),
     JObj(<<"a", "b">>, <<JArr(<<JNum(1)>>), JNum(2)>>), JStr("ab"), JNum(1)}

ArgDocs == {JArr(<<v>>) : v \in ArgValues}

QueryArgTexts ==
    {<<"@">>, <<"@", ".", "a">>, <<"@", ".", "*">>, <<"@", "[", "0", "]">>,
     <<"@", "[", "1", ",", "0", "]">>, <<"$", "[", "*", "]">>}

LogicalArgTexts ==
    {<<"@", ".", "a", "=", "=", "1">>, <<"@", ".", "a", "&", "&", "@", ".", "b">>,
     <<"@", ".", "a", "|", "|", "@", ".", "b">>}

ArgTexts == QueryArgTexts \cup LogicalArgTexts

CallText(name, arg) == name \o <<"(">> \o arg \o <<")">>

ValueCallNames ==
    {<<"c", "o", "u", "n", "t">>, <<"l", "e", "n", "g", "t", "h">>, <<"v", "a", "l", "u", "e">>}

ArgNumbers == {<<"0">>, <<"1">>, <<"2">>}

ArgFilterTexts ==
    {CallText(<<"f">>, a) : a \in ArgTexts}
        \cup {CallText(n, a) \o <<"=", "=">> \o k : n \in ValueCallNames, a \in ArgTexts, k \in ArgNumbers}

ArgPaths == {FilterPath(e) : e \in ArgFilterTexts}

ArgSignatures ==
    {[Name |-> "f", ParamTypes |-> <<t>>, ReturnType |-> "ResultTypeLogicalType"] :
        t \in {"ParamTypeValueType", "ParamTypeLogicalType", "ParamTypeNodesType"}}

(* The registry after the host has registered f with a signature and with  *)
(* the handler "arg", and before it has.                                   *)
ArgRegistries ==
    {[sigs |-> EmptyRegistry, handlers |-> EmptyRegistry]}
        \cup {[sigs |-> [n \in RegNames |-> <<sig>>], handlers |-> [n \in RegNames |-> <<"arg">>]] :
                 sig \in ArgSignatures}

(* GetMany(json, path) after its call of Parse has returned the query.     *)
InitArg ==
    /\ json \in ArgDocs
    /\ path \in ArgPaths
    /\ parsed = Returned(Parse(path))
    /\ ~parsed.err
    /\ query = parsed.query[1]
    /\ InitIdle
    /\ \E r \in ArgRegistries : customSignatures = r.sigs /\ customHandlers = r.handlers

SpecArg == InitArg /\ [][GetMany]_vars

ArgCall ==
    IF TheFilter.Type = "FilterTest" THEN TheFilter.Test[1].FuncExpr[1]
    ELSE TheFilter.Comp[1].Left.FuncExpr[1]

CallArgument == ArgCall.Args[1]

ArgIsQuery == CallArgument.Type = "FuncArgFilterQuery"

(* The nodes the query of the argument selects, as the top-level evaluator *)
(* selects them from the current node, or from the root for `$`.           *)
ArgNodes ==
    Evaluate(IF CallArgument.FilterQuery[1].Relative THEN TheNode ELSE json,
             Query(CallArgument.FilterQuery[1].Segments)).nodes

(* The number the call is compared with. *)
ArgNumber == ParseFloat(TheComp.Right.Literal[1].Value)

CoercedTo(t, nodes) ==
    CASE t = "ParamTypeValueType" ->
           IF Len(nodes) = 1 THEN ValueArg(nodes[1], FALSE) ELSE ValueArg(Nothing, TRUE)
      [] t = "ParamTypeNodesType" -> NodesArg(nodes)
      [] t = "ParamTypeLogicalType" -> LogicalArg(nodes # <<>>)

SelectedIff(b) == IF b THEN Selected ELSE NotSelected

(* The registry of the run had f with a parameter of type t and the        *)
(* handler "arg".                                                          *)
RanWithParam(t) ==
    /\ out.sigs["f"] # <<>>
    /\ out.sigs["f"][1].ParamTypes = <<t>>
    /\ out.handlers["f"] = <<"arg">>

(***************************************************************************)
(* C21.  A query argument is the single node of its nodelist for a Value   *)
(* parameter and Nothing when the nodelist is empty or has several nodes,  *)
(* the nodelist in order for a Nodes parameter, and "the nodelist is not   *)
(* empty" for a Logical parameter: count(Q) is the number of nodes,        *)
(* value(Q) and length(Q) are those of the single node, and f(Q), f taking *)
(* a Logical, is true iff Q selects a node.                                *)
(***************************************************************************)
C21_QueryArgumentCoerced ==
    (out.ran /\ ArgIsQuery) =>
        /\ \A t \in {"ParamTypeValueType", "ParamTypeNodesType", "ParamTypeLogicalType"} :
              evalFilterQueryArg(TheNode, CallArgument.FilterQuery, t)
                  = ARet(CoercedTo(t, ArgNodes), TRUE)
        /\ ArgCall.Name = "count" => SelectedIff(Len(ArgNodes) = ArgNumber)
        /\ ArgCall.Name = "value" =>
              SelectedIff(/\ Len(ArgNodes) = 1
                          /\ ArgNodes[1].Type = "Number"
                          /\ ArgNodes[1].Num = ArgNumber)
        /\ ArgCall.Name = "length" =>
              SelectedIff(/\ Len(ArgNodes) = 1
                          /\ LengthOf(ArgNodes[1]) # Nothing
                          /\ LengthOf(ArgNodes[1]).Num = ArgNumber)
        /\ (ArgCall.Name = "f" /\ RanWithParam("ParamTypeLogicalType"))
              => SelectedIff(ArgNodes # <<>>)

(* `$[?count(@[1,0]) == 2]` on `[[2,1]]`: the argument is the nodelist     *)
(* 1, 2 and the array is selected; as a Value the same query is Nothing.   *)
C21_TwoNodesInSelectorOrder ==
    /\ out.ran
    /\ json = JArr(<<JArr(<<JNum(2), JNum(1)>>)>>)
    /\ path = FilterPath(CallText(<<"c", "o", "u", "n", "t">>, <<"@", "[", "1", ",", "0", "]">>)
                            \o <<"=", "=", "2">>)
    /\ ArgNodes = <<JNum(1), JNum(2)>>
    /\ Selected
    /\ evalFilterQueryArg(TheNode, CallArgument.FilterQuery, "ParamTypeValueType").arg.isNothing

ArgIsLogicalExpr == CallArgument.LogicalExpr # <<>>

PathOfCall(name, arg) == FilterPath(CallText(name, arg))

HasMember(v, name) == MemberOf(v, name) # Nothing

(* What the logical expression of the argument is at the current node.     *)
LogicalArgTruth ==
    CASE path = PathOfCall(<<"f">>, <<"@", ".", "a", "=", "=", "1">>) ->
           MemberOf(TheNode, "a") # Nothing /\ MemberOf(TheNode, "a").Type = "Number"
               /\ MemberOf(TheNode, "a").Num = 1
      [] path = PathOfCall(<<"f">>, <<"@", ".", "a", "&", "&", "@", ".", "b">>) ->
           HasMember(TheNode, "a") /\ HasMember(TheNode, "b")
      [] path = PathOfCall(<<"f">>, <<"@", ".", "a", "|", "|", "@", ".", "b">>) ->
           HasMember(TheNode, "a") \/ HasMember(TheNode, "b")
      [] OTHER -> FALSE

(***************************************************************************)
(* C22.  A call whose argument is a comparison or an `&&` / `||` of tests  *)
(* selects nothing and raises nothing when the parameter is a Value or a   *)
(* Nodes (the built-ins, f registered so); when f takes a Logical, f(E)    *)
(* has the value of E at the current node.                                 *)
(***************************************************************************)
C22_LogicalArgumentOnlyForLogical ==
    (out.ran /\ ArgIsLogicalExpr) =>
        /\ ~out.panic
        /\ ArgCall.Name # "f" => NotSelected
        /\ (ArgCall.Name = "f" /\ ~RanWithParam("ParamTypeLogicalType")) => NotSelected
        /\ (ArgCall.Name = "f" /\ RanWithParam("ParamTypeLogicalType"))
              => SelectedIff(LogicalArgTruth)

(* C22 fails on `$[?f(@.a==1)]` applied to `[{"a":1}]` with f registered   *)
(* as taking a Logical: the comparison is true, and nothing is selected.   *)
C22_TrueComparisonNotSelected ==
    /\ out.ran
    /\ json = JArr(<<JObj(<<"a">>, <<JNum(1)>>)>>)
    /\ path = PathOfCall(<<"f">>, <<"@", ".", "a", "=", "=", "1">>)
    /\ RanWithParam("ParamTypeLogicalType")
    /\ CallArgument.Type = "FuncArgLiteral"
    /\ NotSelected

(***************************************************************************)
(* Segments of several selectors: `$[s1,s2]`, `$[*][s1,s2]`, `$..[s1,s2]`  *)
(* and `$[*]..[s1,s2]` on arrays and objects nested in one another, one of *)
(* them with an empty member name.                                         *)
(***************************************************************************)
SegDocs ==
    {JArr(<<JObj(<<"a", "b">>, <<JNum(1), JNum(2)>>), JObj(<<"a", "b">>, <<JNum(3), JNum(4)>>)>>),
     JObj(<<"x", "y">>, <<JArr(<<JNum(1), JNum(2)>>), JArr(<<JNum(3), JNum(4)>>)>>),
     JArr(<<JArr(<<JNum(1), JNum(2)>>), JObj(<<"a">>, <<JArr(<<JNum(3)>>)>>)>>),
     JObj(<<"a", "b">>, <<JObj(<<"a">>, <<JArr(<<JNum(1)>>)>>), JArr(<<JObj(<<"a">>, <<JNum(2)>>)>>)>>),
     JObj(<<"", "b">>, <<JArr(<<JNum(1)>>), JArr(<<JNum(2)>>)>>),
     JArr(<<>>), JNum(1)}

SegSelectors == {NameSel("a"), NameSel("b"), IndexSel(0), IndexSel(-1), WildSel}

SelectorLists ==
    {<<s>> : s \in SegSelectors} \cup {<<s, t>> : s \in SegSelectors, t \in SegSelectors}
        \cup {<<WildSel, IndexSel(0), NameSel("a")>>}

SegQueries ==
    {Query(<<ChildSeg(sl)>>) : sl \in SelectorLists}
        \cup {Query(<<ChildSeg(<<WildSel>>), ChildSeg(sl)>>) : sl \in SelectorLists}
        \cup {Query(<<DescSeg(sl)>>) : sl \in SelectorLists}
        \cup {Query(<<ChildSeg(<<WildSel>>), DescSeg(sl)>>) : sl \in SelectorLists}

InitSeg ==
    /\ json \in SegDocs
    /\ query \in SegQueries
    /\ InitRest

SpecSeg == InitSeg /\ [][GetMany]_vars

LastSegment == query.Segments[Len(query.Segments)]

(* The nodes the last segment of the query is applied to.                  *)
SegmentInput ==
    IF Len(query.Segments) = 1 THEN <<json>>
    ELSE Evaluate(json, Query(SubSeq(query.Segments, 1, Len(query.Segments) - 1))).nodes

(* The results of selector j on every node of input, in input order.       *)
OnEveryNode(input, selector) ==
    LET acc[k \in 0..Len(input)] ==
            IF k = 0 THEN <<>> ELSE acc[k - 1] \o evaluateSelector(input[k], selector).nodes
    IN acc[Len(input)]

(* The results of every selector on one node, in selector order.           *)
EverySelectorOn(node, selectors) ==
    LET acc[j \in 0..Len(selectors)] ==
            IF j = 0 THEN <<>> ELSE acc[j - 1] \o evaluateSelector(node, selectors[j]).nodes
    IN acc[Len(selectors)]

SelectorMajor(input, selectors) ==
    LET acc[j \in 0..Len(selectors)] ==
            IF j = 0 THEN <<>> ELSE acc[j - 1] \o OnEveryNode(input, selectors[j])
    IN acc[Len(selectors)]

InputMajor(input, selectors) ==
    LET acc[k \in 0..Len(input)] ==
            IF k = 0 THEN <<>> ELSE acc[k - 1] \o EverySelectorOn(input[k], selectors)
    IN acc[Len(input)]

(***************************************************************************)
(* C23 as stated: the output of a child segment is, selector after         *)
(* selector, the results of that selector on the input nodes in input      *)
(* order.                                                                  *)
(***************************************************************************)
C23_ChildSegmentSelectorMajor ==
    (out.ran /\ LastSegment.Type = "ChildSegment")
        => (~out.panic /\ out.nodes = SelectorMajor(SegmentInput, LastSegment.Selectors))

(***************************************************************************)
(* C23 amended: the output of a child segment is, input node after input   *)
(* node, the results of the selectors on that node in selector order.      *)
(***************************************************************************)
C23_ChildSegmentInputMajor ==
    (out.ran /\ LastSegment.Type = "ChildSegment")
        => (~out.panic /\ out.nodes = InputMajor(SegmentInput, LastSegment.Selectors))

(* `$[*]['a','b']` on `[{"a":1,"b":2},{"a":3,"b":4}]` is 1, 2, 3, 4.       *)
C23_TwoSelectorsOnTwoNodes ==
    /\ out.ran
    /\ json = JArr(<<JObj(<<"a", "b">>, <<JNum(1), JNum(2)>>),
                     JObj(<<"a", "b">>, <<JNum(3), JNum(4)>>)>>)
    /\ query = Query(<<ChildSeg(<<WildSel>>), ChildSeg(<<NameSel("a"), NameSel("b")>>)>>)
    /\ out.nodes = <<JNum(1), JNum(2), JNum(3), JNum(4)>>
    /\ SelectorMajor(SegmentInput, LastSegment.Selectors) = <<JNum(1), JNum(3), JNum(2), JNum(4)>>

(* The children of a node: the elements of an array in index order, the    *)
(* member values of an object in document order.                           *)
Children(v) == IF v.Type = "JSON" THEN v.Elems ELSE <<>>

(* The pre-order walk: the results of the selectors on v, then the walks   *)
(* of the children of v, one after the other.                              *)
RECURSIVE PreOrder(_, _)
PreOrder(v, selectors) ==
    LET walks[k \in 0..Len(Children(v))] ==
            IF k = 0 THEN <<>> ELSE walks[k - 1] \o PreOrder(Children(v)[k], selectors)
    IN EverySelectorOn(v, selectors) \o walks[Len(Children(v))]

PreOrderOfAll(input, selectors) ==
    LET acc[k \in 0..Len(input)] ==
            IF k = 0 THEN <<>> ELSE acc[k - 1] \o PreOrder(input[k], selectors)
    IN acc[Len(input)]

(***************************************************************************)
(* C24.  The output of a descendant segment is, input node after input     *)
(* node, the pre-order walk of the node: the results of the selectors on   *)
(* the node, then the walks of its array elements in index order or of its *)
(* object members in document order.                                       *)
(***************************************************************************)
C24_DescendantPreOrder ==
    (out.ran /\ LastSegment.Type = "DescendantSegment")
        => (~out.panic /\ out.nodes = PreOrderOfAll(SegmentInput, LastSegment.Selectors))

(* C24 fails on `$..[0]` applied to `{"":[1],"b":[2]}`: the walk visits no *)
(* member of the object and returns nothing, the pre-order walk is 1, 2.   *)
C24_MembersNotVisited ==
    /\ out.ran
    /\ json = JObj(<<"", "b">>, <<JArr(<<JNum(1)>>), JArr(<<JNum(2)>>)>>)
    /\ query = Query(<<DescSeg(<<IndexSel(0)>>)>>)
    /\ out.nodes = <<>>
    /\ PreOrderOfAll(SegmentInput, LastSegment.Selectors) = <<JNum(1), JNum(2)>>

(***************************************************************************)
(* A Lexer of its own: NewLexer(path) and then NextToken, call after call. *)
(* The inputs are all the texts of up to MaxInput characters over a small  *)
(* alphabet.  The element RuneError of an input stands for a byte that is  *)
(* no UTF-8 (0xFF): utf8.DecodeRuneInString returns (RuneError, 1) for it, *)
(* as it returns (RuneError, 3) for the character U+FFFD.                  *)
(***************************************************************************)
MaxInput == 3

MaxCalls == 5

LexAlphabet == {"$", ".", "a", "1", " ", "'", RuneError}

LexInputs == UNION {[1..n -> LexAlphabet] : n \in 0..MaxInput}

InitLex ==
    /\ json = JNull
    /\ query = Query(<<>>)
    /\ InitCalls
    /\ customSignatures = EmptyRegistry
    /\ customHandlers = EmptyRegistry
    /\ path \in LexInputs
    /\ parsed = NoParse
    /\ lexed = [l |-> <<NewLexer(path)>>, toks |-> <<>>]

Returns(r) == [l |-> <<r.l>>, toks |-> Append(lexed.toks, r.tok)]

NextTokenCall ==
    /\ lexed.l # <<>>
    /\ Len(lexed.toks) < MaxCalls
    /\ lexed' = Returns(NextToken(lexed.l[1]))
    /\ UNCHANGED <<path, parsed, json, query, out, first, evals, mapSeed, customSignatures,
                   customHandlers, goroutines>>

SpecLex == InitLex /\ [][NextTokenCall]_vars

(***************************************************************************)
(* C25.  Once NextToken has returned an EOF token, every later NextToken   *)
(* on the same lexer returns an EOF token.                                 *)
(***************************************************************************)
C25_EOFIsFinal ==
    \A i \in 1..Len(lexed.toks) : \A j \in i..Len(lexed.toks) :
        lexed.toks[i].Type = "TokenEOF" => lexed.toks[j].Type = "TokenEOF"

(* C25 fails on the two-byte input 0xFF `$`: the first NextToken returns   *)
(* EOF and the second returns the token `$`.                               *)
C25_TokenAfterEOF ==
    /\ path = <<RuneError, "$">>
    /\ Len(lexed.toks) = 2
    /\ lexed.toks[1].Type = "TokenEOF"
    /\ lexed.toks[2].Type = "TokenRoot"

(***************************************************************************)
(* The slice of RFC 9535, section 2.3.4.2.2, on an array of length len.    *)
(***************************************************************************)
Normalize(i, len) == IF i >= 0 THEN i ELSE len + i

Min(a, b) == IF a < b THEN a ELSE b

Max(a, b) == IF a > b THEN a ELSE b

RFCStart(start, step, len) ==
    IF start # <<>> THEN start[1] ELSE IF step >= 0 THEN 0 ELSE len - 1

RFCEnd(end, step, len) ==
    IF end # <<>> THEN end[1] ELSE IF step >= 0 THEN len ELSE 0 - len - 1

RFCLower(start, end, step, len) ==
    IF step >= 0 THEN Min(Max(Normalize(RFCStart(start, step, len), len), 0), len)
    ELSE Min(Max(Normalize(RFCEnd(end, step, len), len), -1), len - 1)

RFCUpper(start, end, step, len) ==
    IF step >= 0 THEN Min(Max(Normalize(RFCEnd(end, step, len), len), 0), len)
    ELSE Min(Max(Normalize(RFCStart(start, step, len), len), -1), len - 1)

(* The elements at i, i + step, ... while i < upper (step > 0) or          *)
(* lower < i (step < 0).                                                   *)
RECURSIVE RFCFrom(_, _, _, _, _)
RFCFrom(arr, i, lower, upper, step) ==
    IF step > 0 /\ i < upper THEN <<arr[i + 1]>> \o RFCFrom(arr, i + step, lower, upper, step)
    ELSE IF step < 0 /\ lower < i THEN <<arr[i + 1]>> \o RFCFrom(arr, i + step, lower, upper, step)
    ELSE <<>>

RFCSlice(arr, slice, step) ==
    RFCFrom(arr,
            IF step > 0 THEN RFCLower(slice.Start, slice.End, step, Len(arr))
            ELSE RFCUpper(slice.Start, slice.End, step, Len(arr)),
            RFCLower(slice.Start, slice.End, step, Len(arr)),
            RFCUpper(slice.Start, slice.End, step, Len(arr)), step)

StepOf(slice) == IF slice.Step # <<>> THEN slice.Step[1] ELSE 1

(***************************************************************************)
(* C26.  On an array of any length, a slice with a non-zero step selects   *)
(* the elements the algorithm of RFC 9535, section 2.3.4.2.2, selects, in  *)
(* its order, whatever start and end are and whether they are given.       *)
(***************************************************************************)
C26_SliceAsRFC ==
    (out.ran /\ IsSliceQuery /\ IsArray(json) /\ StepOf(TheSelector.Slice[1]) # 0)
        => /\ ~out.panic
           /\ out.nodes = RFCSlice(Array(json), TheSelector.Slice[1], StepOf(TheSelector.Slice[1]))

(* `$[3:]` on [1,2,3]: the start is clamped to the last index and the      *)
(* last element is selected, where the algorithm of the RFC selects none.  *)
C26_StartAtLengthSelectsLast ==
    /\ out.ran /\ ~out.panic
    /\ json = ArrayOfLen(3)
    /\ query = SliceQuery(<<3>>, <<>>, <<>>)
    /\ RFCSlice(Array(json), TheSelector.Slice[1], 1) = <<>>
    /\ out.nodes = <<JNum(3)>>

(***************************************************************************)
(* Descendant segments inside filter queries: `$[?Q]` and                  *)
(* `$[?count(Q) == k]` as Parse returns them, on a one-element array whose *)
(* element has the member a at several depths.                             *)
(***************************************************************************)
DeepValues ==
    {JObj(<<"a">>, <<JNum(1)>>),
     JObj(<<"b">>, <<JObj(<<"a">>, <<JNum(1)>>)>>),
     JObj(<<"a", "b">>, <<JNum(1), JObj(<<"a">>, <<JNum(2)>>)>>),
     JArr(<<JObj(<<"a">>, <<JNum(1)>>)>>),
     JObj(<<"b">>, <<JNum(1)>>), JArr(<<>>), JNum(1)}

DeepDocs == {JArr(<<v>>) : v \in DeepValues}

DeepQueryTexts ==
    {<<"@", ".", ".", "a">>, <<"@", ".", ".", "*">>, <<"@", ".", "b", ".", ".", "a">>,
     <<"@", ".", ".", "[", "0", "]">>, <<"$", ".", ".", "a">>, <<"@", ".", "a">>, <<"@", ".", "*">>}

DeepFilterTexts ==
    DeepQueryTexts
        \cup {CallText(<<"c", "o", "u", "n", "t">>, q) \o <<"=", "=">> \o k :
                 q \in DeepQueryTexts, k \in ArgNumbers}

DeepPaths == {FilterPath(e) : e \in DeepFilterTexts}

(* GetMany(json, path) after its call of Parse has returned the query.     *)
InitDeep ==
    /\ json \in DeepDocs
    /\ path \in DeepPaths
    /\ parsed = Returned(Parse(path))
    /\ ~parsed.err
    /\ query = parsed.query[1]
    /\ InitRun

SpecDeep == InitDeep /\ [][GetMany]_vars

IsTest == TheFilter.Type = "FilterTest"

TheFilterQuery ==
    IF IsTest THEN TheFilter.Test[1].FilterQuery[1]
    ELSE TheFilter.Comp[1].Left.FuncExpr[1].Args[1].FilterQuery[1]

HasDescendantSegment(fq) ==
    \E i \in 1..Len(fq.Segments) : fq.Segments[i].Type = "DescendantSegment"

(* The nodes the query selects from the current node, or from the root for *)
(* `$`, as the top-level evaluator selects them, a descendant segment      *)
(* visiting the node and all its descendants.                              *)
QueryNodes ==
    Evaluate(IF TheFilterQuery.Relative THEN TheNode ELSE json,
             Query(TheFilterQuery.Segments)).nodes

(***************************************************************************)
(* C27.  A filter query with a descendant segment, as an existence test or *)
(* as the argument of count, selects from the node and all its             *)
(* descendants: the test holds iff some such node is selected and count is *)
(* their number.                                                           *)
(***************************************************************************)
C27_DescendantInFilterQuery ==
    (out.ran /\ HasDescendantSegment(TheFilterQuery)) =>
        IF IsTest THEN SelectedIff(QueryNodes # <<>>)
        ELSE SelectedIff(Len(QueryNodes) = ParseFloat(TheComp.Right.Literal[1].Value))

(* `$[?@..a]` on `[{"b":{"a":1}}]`: the element has a descendant member a  *)
(* and is not selected, the segment having looked at its children only.    *)
C27_NestedMemberNotFound ==
    /\ out.ran
    /\ json = JArr(<<JObj(<<"b">>, <<JObj(<<"a">>, <<JNum(1)>>)>>)>>)
    /\ path = FilterPath(<<"@", ".", ".", "a">>)
    /\ TheFilterQuery.Segments[1].Type = "DescendantSegment"
    /\ QueryNodes = <<JNum(1)>>
    /\ NotSelected

(***************************************************************************)
(* The registry under the names of built-in functions: the host calls      *)
(* RegisterFunction, RegisterFunctionHandler and UnregisterFunction with   *)
(* "length" and "match", and GetMany evaluates calls of built-ins.         *)
(***************************************************************************)
OverNames == {"length", "match"}

OverSignatures ==
    {[Name |-> n, ParamTypes |-> <<"ParamTypeValueType">>, ReturnType |-> "ResultTypeLogicalType"] :
        n \in OverNames}

OverDocs == {JArr(<<JStr("ab")>>), JArr(<<JStr("a")>>), JArr(<<JArr(<<JNum(1), JNum(2)>>)>>)}

OverQueries ==
    {FilterQueryOf(CompExpr(FuncCmp(Call("length", <<CurrentArg>>)), "CompEq",
                            LitCmp(Lit("LiteralNumber", "2")))),
     FilterQueryOf(CompExpr(FuncCmp(Call("count", <<ChildrenArg>>)), "CompEq",
                            LitCmp(Lit("LiteralNumber", "2")))),
     FilterQueryOf(FuncTest(Call("match", <<CurrentArg, LitArg(Lit("LiteralString", "a"))>>))),
     FilterQueryOf(FuncTest(Call("search", <<CurrentArg, LitArg(Lit("LiteralString", "a"))>>)))}

InitOver ==
    /\ json \in OverDocs
    /\ query \in OverQueries
    /\ path = <<>>
    /\ parsed = NoParse
    /\ InitIdle
    /\ customSignatures = [n \in OverNames |-> <<>>]
    /\ customHandlers = [n \in OverNames |-> <<>>]

RegisterOver ==
    \E sig \in OverSignatures : RegisterFunction(sig.Name, sig.ParamTypes, sig.ReturnType)

RegisterHandlerOver == \E name \in OverNames : RegisterFunctionHandler(name, "one")

UnregisterOver == \E name \in OverNames : UnregisterFunction(name)

NextOver == GetMany \/ RegisterOver \/ RegisterHandlerOver \/ UnregisterOver

SpecOver == InitOver /\ [][NextOver]_vars

(* The built-in implementation of each built-in name. *)
BuiltinOf(name, args) ==
    CASE name = "length" -> builtinLength(args)
      [] name = "count" -> builtinCount(args)
      [] name = "match" -> builtinMatch(args)
      [] name = "search" -> builtinSearch(args)
      [] name = "value" -> builtinValue(args)

SampleArgs(name) ==
    CASE name = "length" -> <<ValueArg(JStr("ab"), FALSE)>>
      [] name \in {"count", "value"} -> <<NodesArg(<<JNum(2)>>)>>
      [] name \in {"match", "search"} -> <<ValueArg(JStr("a"), FALSE), ValueArg(JStr("a"), FALSE)>>

(* The call of the filter on the element, its arguments coerced by the     *)
(* built-in signature and handed to the built-in implementation.           *)
BuiltinRun ==
    LET a == evalFuncArgs(TheNode, ArgCall, builtinSignatures[ArgCall.Name], 1)
    IN IF a.panic \/ ~a.ok THEN Ret(Nothing, FALSE) ELSE BuiltinOf(ArgCall.Name, a.args)

BuiltinSelects ==
    IF IsTest THEN BuiltinRun.ok /\ funcResultToLogical(BuiltinRun.res)
    ELSE /\ BuiltinRun.ok
         /\ BuiltinRun.res.Type = "Number"
         /\ BuiltinRun.res.Num = ParseFloat(TheComp.Right.Literal[1].Value)

(***************************************************************************)
(* C28.  Whatever calls of RegisterFunction, RegisterFunctionHandler and   *)
(* UnregisterFunction have been made, with names of built-ins too, each of *)
(* the five built-in names resolves to its built-in signature and is       *)
(* executed by its built-in implementation, so that an evaluation selects  *)
(* what the built-in selects.                                              *)
(***************************************************************************)
C28_BuiltinsNotReplaced ==
    /\ \A n \in DOMAIN builtinSignatures :
          /\ findFunctionSignature(n) = <<builtinSignatures[n]>>
          /\ callFunction(n, SampleArgs(n), builtinSignatures[n]) = BuiltinOf(n, SampleArgs(n))
    /\ out.ran => SelectedIff(BuiltinSelects)

(* `$[?length(@) == 2]` on `["ab"]` after RegisterFunctionHandler("length",*)
(* h), h returning 1: the signature is the built-in's, the call runs h,    *)
(* and the string of length 2 is not selected.                             *)
C28_HandlerReplacesLength ==
    /\ out.ran
    /\ json = JArr(<<JStr("ab")>>)
    /\ ArgCall.Name = "length"
    /\ out.handlers["length"] = <<"one">>
    /\ customHandlers["length"] = <<"one">>
    /\ findFunctionSignature("length") = <<builtinSignatures["length"]>>
    /\ builtinLength(<<ValueArg(TheNode, FALSE)>>) = Ret(JNum(2), TRUE)
    /\ callFunction("length", <<ValueArg(TheNode, FALSE)>>, builtinSignatures["length"]) = Ret(JNum(1), TRUE)
    /\ NotSelected

(***************************************************************************)
(* Parse on index and slice selectors whose numbers are integers or have a *)
(* fraction or an exponent: `$[n]`, `$[n:m]` and `$[::n]`.                 *)
(***************************************************************************)
WholeTexts == {<<"0">>, <<"1">>, <<"1", "2">>, <<"-", "1">>, <<"-", "2", "0">>}

FractionTexts ==
    {<<"1", ".", "5">>, <<"2", ".", "5">>, <<"1", "e", "2">>, <<"1", ".", "5", "e", "2">>,
     <<"-", "1", ".", "0">>}

NumTexts == WholeTexts \cup FractionTexts

IndexPath(n) == <<"$", "[">> \o n \o <<"]">>

SlicePath(n, m) == <<"$", "[">> \o n \o <<":">> \o m \o <<"]">>

StepPath(n) == <<"$", "[", ":", ":">> \o n \o <<"]">>

NumPaths ==
    {IndexPath(n) : n \in NumTexts} \cup {StepPath(n) : n \in NumTexts}
        \cup {SlicePath(n, m) : n \in NumTexts, m \in NumTexts}

InitNum ==
    /\ json = JNull
    /\ query = Query(<<>>)
    /\ InitRun
    /\ path \in NumPaths
    /\ parsed = NoParse

SpecNum == InitNum /\ [][ParseCall]_vars

(* The integer a text of WholeTexts denotes. *)
ValueOfText(n) ==
    CASE n = <<"0">> -> 0
      [] n = <<"1">> -> 1
      [] n = <<"1", "2">> -> 12
      [] n = <<"-", "1">> -> -1
      [] n = <<"-", "2", "0">> -> -20

(* Parse returned q for a path whose numbers are all integers, and an      *)
(* error for any other.                                                    *)
AcceptedAs(whole, q) ==
    IF whole THEN ~parsed.err /\ parsed.query = <<q>>
    ELSE parsed.err /\ parsed.query = <<>>

(***************************************************************************)
(* C29.  Parse rejects an index selector or a slice bound or step whose    *)
(* number token has a fraction or an exponent, and the integer it stores   *)
(* for a number it accepts is the value of the whole token text.           *)
(***************************************************************************)
C29_OnlyIntegersAccepted ==
    parsed.done =>
        /\ \A n \in NumTexts :
              /\ path = IndexPath(n) =>
                    AcceptedAs(n \in WholeTexts,
                               IndexQuery(IF n \in WholeTexts THEN ValueOfText(n) ELSE 0))
              /\ path = StepPath(n) =>
                    AcceptedAs(n \in WholeTexts,
                               SliceQuery(<<>>, <<>>,
                                          <<IF n \in WholeTexts THEN ValueOfText(n) ELSE 0>>))
        /\ \A n \in WholeTexts, m \in WholeTexts :
              path = SlicePath(n, m) =>
                  AcceptedAs(TRUE, SliceQuery(<<ValueOfText(n)>>, <<ValueOfText(m)>>, <<>>))
        /\ \A n \in NumTexts, m \in NumTexts :
              (path = SlicePath(n, m) /\ ~(n \in WholeTexts /\ m \in WholeTexts)) => parsed.err

(* `$[1.5e2]`: the token is the number 1.5e2, Parse returns a Query, and   *)
(* the index it stores is 1.                                               *)
C29_FractionReadAsPrefix ==
    /\ parsed.done
    /\ path = IndexPath(<<"1", ".", "5", "e", "2">>)
    /\ Tokens(path)[2].tok = Token("TokenNumber", <<"1", ".", "5", "e", "2">>, 2)
    /\ ~parsed.err
    /\ parsed.query = <<IndexQuery(1)>>

(***************************************************************************)
(* Parse on `$` followed by up to MaxTail characters, an invalid UTF-8     *)
(* byte (or the character U+FFFD) among them: what utf8.DecodeRuneInString *)
(* returns for it is utf8.RuneError.                                       *)
(***************************************************************************)
MaxTail == 3

TailAlphabet == {".", "a", "[", "0", "]", " ", RuneError}

TailPaths == {<<"$">> \o t : t \in UNION {[1..n -> TailAlphabet] : n \in 0..MaxTail}}

InitTail ==
    /\ json = JNull
    /\ query = Query(<<>>)
    /\ InitRun
    /\ path \in TailPaths
    /\ parsed = NoParse

SpecTail == InitTail /\ [][ParseCall]_vars

(* The token parseQuery stopped at. *)
LastToken == Parse(path).p.curr

(***************************************************************************)
(* C30.  NextToken returns EOF only at the end of the input, so that Parse *)
(* returns a Query only when the whole text has been made into tokens: the *)
(* EOF token at which parseQuery stops stands at the end of the path.      *)
(***************************************************************************)
C30_AcceptedMeansConsumed ==
    /\ \A pos \in 0..Len(path) :
          Tokens(path)[pos].tok.Type = "TokenEOF" => Tokens(path)[pos].tok.Pos = Len(path)
    /\ (parsed.done /\ ~parsed.err) => LastToken = Token("TokenEOF", <<>>, Len(path))

(* `$` + invalid byte + `.a`: Parse returns the query `$`, having stopped  *)
(* at the EOF token of the invalid byte; `.a` was never looked at.         *)
C30_TailAfterInvalidByteIgnored ==
    /\ parsed.done
    /\ path = <<"$", RuneError, ".", "a">>
    /\ ~parsed.err
    /\ parsed.query = <<Query(<<>>)>>
    /\ LastToken = Token("TokenEOF", <<>>, 1)

====
